---- MODULE Spec2Model ----
(***************************************************************************)
(* A model of code/phase_01_stock_screening.py: the four-stage screening   *)
(* pipeline (ticker list -> net-income filter -> metrics -> scores), and   *)
(* of the main loop of code/phase_02_get_10K_forms.py, which downloads the *)
(* 10-K filings of the tickers the filter kept.                            *)
(*                                                                         *)
(* Numbers.  pandas cells are either a number or NaN.  A cell is modelled  *)
(* as a sequence: <<>> is NaN, <<x>> is the number x.  The scores the      *)
(* program computes are rationals; they are kept exact as integer          *)
(* numerators over a denominator fixed by the number N of rows:            *)
(*   a percentile (normalize_score)  is  p / (2*N)       (PctDen)          *)
(*   a sub-score column              is  s / (20*N)      (SubDen)          *)
(*   Composite_Score                 is  c / (2000*N)    (CompDen)         *)
(*   Rank                            is  r / 2                             *)
(* The metric cells of file 03 are decimal numbers of at most four places  *)
(* (the collector rounds to two or four, lines 160-229): the cell <<x>> of  *)
(* a metric column is the number x / Unit.                                 *)
(* The program computes in IEEE doubles; their rounding is not modelled.   *)
(***************************************************************************)
EXTENDS Integers, Sequences, FiniteSets, TLC

VARIABLES
    pc,               \* position of the running script
    listing,          \* what pd.read_html gives get_sp500_tickers
    test_mode,        \* main's argument test_mode
    test_count,       \* main's argument test_count
    tickers,          \* create_dataframe_with_tickers: the list it got
    values,           \* normalize_score: its argument
    scores,           \* normalize_score: its result
    data_dir,         \* whether the directory data exists
    file01,           \* data/01_va_sp500_tickers.csv
    file02,           \* data/02_va_sp500_filtered_by_net_income.csv
    file03,           \* data/03_va_sp500_raw_screening_data.csv
    file04,           \* data/04_va_sp500_screening_results.csv
    universe,         \* filter_by_net_income: df['Ticker'] read from file 01
    idx,              \* filter_by_net_income: number of loop iterations done
    financials_df,    \* filter_by_net_income: what stock.financials gave last
    tickers_to_keep,  \* filter_by_net_income: the list being built
    failed,           \* history: the loop iterations that raised
    collect_idx,      \* add_all_screening_metrics: loop iterations done
    market,           \* what the market-data provider gave last
    metrics_df,       \* add_all_screening_metrics: its frame df
    weights,          \* SCREENING_WEIGHTS, in hundredths
    spy_hist,         \* what the SPY history fetch gave
    spy_return_20d,   \* the benchmark return, [num, den]
    df,               \* calculate_screening_scores: the scored, sorted frame
    provider_log,     \* history: the last delay or provider call before the
                      \* latest fetching step, and the delays and calls of it
    tenk_tickers,     \* 10-K downloader: tickers_to_use
    tenk_i,           \* 10-K downloader: tickers of the main loop done
    filings,          \* 10-K downloader: what search_10k_filings returned
    tenk_j,           \* 10-K downloader: filings of the inner loop done
    success_count,    \* 10-K downloader: success_count
    successful_tickers, \* 10-K downloader: successful_tickers
    saved,            \* the files under data/10k_filings
    sec_last          \* history: the last SEC request or sleep of the downloader

vars == <<pc, listing, test_mode, test_count, tickers, values, scores,
          data_dir, file01, file02, file03, file04, universe, idx, financials_df,
          tickers_to_keep, failed, collect_idx, market, metrics_df,
          weights, spy_hist, spy_return_20d, df, provider_log,
          tenk_tickers, tenk_i, filings, tenk_j, success_count,
          successful_tickers, saved, sec_last>>

normVars == <<values, scores>>
fileVars == <<file01, file02, file03, file04>>
universeVars == <<listing, test_mode, test_count, tickers>>
filterVars == <<universe, idx, financials_df, tickers_to_keep, failed>>
collectVars == <<collect_idx, market, metrics_df>>
scoreVars == <<weights, spy_hist, spy_return_20d, df>>
tenkVars == <<tenk_tickers, tenk_i, filings, tenk_j, success_count,
              successful_tickers, saved, sec_last>>

(***************************************************************************)
(* Bounds of the model.                                                    *)
(***************************************************************************)
MaxLen == 4       \* longest column given to normalize_score
MaxVal == 2       \* column values are 0..MaxVal (or NaN)

(***************************************************************************)
(* Cells.                                                                  *)
(***************************************************************************)
\* a metric cell <<x>> is the number x / Unit: round(..., 4) at lines 224-225
\* keeps the most decimal places of all metrics
Unit == 10000

NaN == <<>>

Num(x) == <<x>>

IsNaN(c) == c = NaN

Val(c) == c[1]

\* the sequence f, held by TLC as an explicit tuple rather than as a rule
\* it would evaluate again at every use (the value is the same)
Tuple(f) == f \o <<>>

\* Series.fillna(d)
fillna(col, d) ==
    Tuple([i \in 1..Len(col) |-> IF IsNaN(col[i]) THEN Num(d) ELSE col[i]])

Cells == {NaN} \cup {Num(x) : x \in 0..MaxVal}

RECURSIVE SeqsUpTo(_, _)
\* all sequences over S of length 0..n
SeqsUpTo(S, n) ==
    IF n = 0 THEN {<<>>}
    ELSE LET shorter == SeqsUpTo(S, n - 1)
         IN  shorter \cup {Append(s, x) : s \in {t \in shorter : Len(t) = n - 1}, x \in S}

(***************************************************************************)
(* Series.rank(): pandas sorts the non-NaN values (stable), walks the      *)
(* sorted order and gives each run of equal values the mean of the         *)
(* positions it occupies (method='average'); NaN keeps NaN                 *)
(* (na_option='keep').  Ranks are returned doubled, so they are integers.  *)
(***************************************************************************)
RECURSIVE InsertSorted(_, _, _)
\* insert index i into the index list s (sorted by key), before equal keys
InsertSorted(s, i, key) ==
    IF s = <<>> THEN <<i>>
    ELSE IF key[i] <= key[Head(s)] THEN <<i>> \o s
    ELSE <<Head(s)>> \o InsertSorted(Tail(s), i, key)

RECURSIVE ArgSort(_, _, _)
\* the indices k..Len(col) that hold a number, sorted by key, stable
ArgSort(col, key, k) ==
    IF k > Len(col) THEN <<>>
    ELSE IF IsNaN(col[k]) THEN ArgSort(col, key, k + 1)
    ELSE InsertSorted(ArgSort(col, key, k + 1), k, key)

RECURSIVE RankWalk(_, _, _, _, _, _)
\* k: position in the sorted order; sum_ranks, dups: the running tie group;
\* out: doubled ranks assigned so far (0: none yet)
RankWalk(sorted, key, k, sum_ranks, dups, out) ==
    IF k > Len(sorted) THEN out
    ELSE LET s == sum_ranks + k
             d == dups + 1
             last == k = Len(sorted) \/ key[sorted[k + 1]] # key[sorted[k]]
         IN  IF last
             THEN RankWalk(sorted, key, k + 1, 0, 0,
                      Tuple([i \in DOMAIN out |->
                          IF \E j \in (k - d + 1)..k : sorted[j] = i
                          THEN (2 * s) \div d ELSE out[i]]))
             ELSE RankWalk(sorted, key, k + 1, s, d, out)

\* the key the ranking sorts by: ascending, or descending (ascending=False)
RankKey(col, ascending) ==
    Tuple([i \in 1..Len(col) |->
        IF IsNaN(col[i]) THEN 0 ELSE IF ascending THEN Val(col[i]) ELSE 0 - Val(col[i])])

\* 2 * Series.rank(ascending=...), NaN for NaN
Rank2(col, ascending) ==
    LET key == RankKey(col, ascending)
        sorted == ArgSort(col, key, 1)
        out == RankWalk(sorted, key, 1, 0, 0, Tuple([i \in 1..Len(col) |-> 0]))
    IN  Tuple([i \in 1..Len(col) |-> IF IsNaN(col[i]) THEN NaN ELSE Num(out[i])])

\* Series.count(): the number of non-NaN cells
Count(col) == Cardinality({i \in 1..Len(col) : ~IsNaN(col[i])})

\* the denominator of the percentiles of a column
PctDen(col) == 2 * Count(col)

\* rank with ties broken by position (method='first'), doubled
Rank2First(col, ascending) ==
    LET key == RankKey(col, ascending)
        sorted == ArgSort(col, key, 1)
    IN  Tuple([i \in 1..Len(col) |->
            IF IsNaN(col[i]) THEN NaN
            ELSE Num(2 * (CHOOSE k \in 1..Len(sorted) : sorted[k] = i))])

normalize_score_first(vals) ==
    LET r == Rank2First(vals, TRUE)
    IN  Tuple([i \in 1..Len(vals) |-> IF IsNaN(r[i]) THEN NaN ELSE Num(100 * Val(r[i]))])

\* values.rank() * 100, without pct=True, as numerators over PctDen(vals)
normalize_score_nopct(vals) ==
    LET r == Rank2(vals, TRUE)
    IN  Tuple([i \in 1..Len(vals) |->
            IF IsNaN(r[i]) THEN NaN ELSE Num(100 * Val(r[i]) * Count(vals))])

\* normalize_score: values.rank(pct=True) * 100, as numerators over PctDen(vals)
normalize_score(vals) ==
    LET r == Rank2(vals, TRUE)
    IN  Tuple([i \in 1..Len(vals) |-> IF IsNaN(r[i]) THEN NaN ELSE Num(100 * Val(r[i]))])

(***************************************************************************)
(* Files.  A snapshot file is absent, or holds a sequence of rows.         *)
(***************************************************************************)
Absent == [exists |-> FALSE, rows |-> <<>>]

File(rows) == [exists |-> TRUE, rows |-> rows]

NoFrame == [kind |-> "none"]

\* SCREENING_WEIGHTS, in hundredths
SCREENING_WEIGHTS ==
    [volume_score |-> 20,
     price_change_score |-> 25,
     relative_strength_score |-> 20,
     historical_vol_score |-> 15,
     options_score |-> 10,
     short_squeeze_score |-> 10]

\* the variables a specification does not use
IdleNorm == values = <<>> /\ scores = <<>>

IdleUniverse ==
    /\ listing = NoFrame /\ test_mode = FALSE /\ test_count = 0
    /\ tickers = <<>>

IdleFilter ==
    /\ universe = <<>> /\ idx = 0 /\ financials_df = NoFrame
    /\ tickers_to_keep = <<>> /\ failed = {}

IdleCollect == collect_idx = 0 /\ market = NoFrame /\ metrics_df = <<>>

IdleScore ==
    /\ weights = SCREENING_WEIGHTS /\ spy_hist = NoFrame
    /\ spy_return_20d = [num |-> 0, den |-> 1] /\ df = <<>>

IdleLog == provider_log = <<>>

IdleTenK ==
    /\ tenk_tickers = <<>> /\ tenk_i = 0 /\ filings = <<>> /\ tenk_j = 0
    /\ success_count = 0 /\ successful_tickers = 0 /\ saved = {}
    /\ sec_last = "none"

(***************************************************************************)
(* The delays and the calls to the external providers, in the order the    *)
(* code makes them.  "delay" is a call of time_delay; every other entry is *)
(* a request to a provider.                                                *)
(***************************************************************************)
\* lines 35-36
Delay == "delay"

\* the log after a step that made the events: the last entry before the
\* step, and the entries of the step
LogAfter(log, events) ==
    (IF log = <<>> THEN <<>> ELSE <<log[Len(log)]>>) \o events

\* lines 101-103: time_delay, then stock.financials
FilterEvents == <<Delay, "financials">>

\* lines 144-151 and 192-210: one time_delay, then the two histories and
\* the info snapshot; then the expiries and, when there is one, the chain
\* of the first expiry and the 5-day history.  A call that raises is the
\* last one of its try block (here its first one).
CollectEvents(m) ==
    IF m.kind = "raise" THEN <<Delay, "history_1y">>
    ELSE <<Delay, "history_1y", "history_30d", "info", "options">>
         \o (IF m.options.kind = "chain" THEN <<"option_chain", "history_5d">>
             ELSE <<>>)

\* lines 300-301: the SPY history
ScoreEvents == <<"benchmark">>

(***************************************************************************)
(* normalize_score applied to a column.                                    *)
(***************************************************************************)
InitNorm ==
    /\ pc = "normalize"
    /\ values \in SeqsUpTo(Cells, MaxLen)
    /\ scores = <<>>
    /\ file01 = Absent /\ file02 = Absent /\ file03 = Absent /\ file04 = Absent
    /\ data_dir = TRUE
    /\ IdleUniverse /\ IdleFilter /\ IdleCollect /\ IdleScore
    /\ IdleLog /\ IdleTenK

Normalize ==
    /\ pc = "normalize"
    /\ scores' = normalize_score(values)
    /\ pc' = "normalized"
    /\ UNCHANGED <<values, fileVars, universeVars, filterVars, collectVars, scoreVars,
                   provider_log, data_dir, tenkVars>>

NextNorm == Normalize

SpecNorm == InitNorm /\ [][NextNorm]_vars

(***************************************************************************)
(* C2.  The percentile of a cell, by counting: with L values of the column *)
(* smaller than it and E values equal to it (itself included), its tie     *)
(* group occupies the ranks L+1..L+E, whose mean is L + (E+1)/2.           *)
(***************************************************************************)
Less(col, i) == Cardinality({j \in 1..Len(col) : ~IsNaN(col[j]) /\ Val(col[j]) < Val(col[i])})

Equal(col, i) == Cardinality({j \in 1..Len(col) : ~IsNaN(col[j]) /\ Val(col[j]) = Val(col[i])})

\* 2 * (the average rank of the tie group of cell i)
AvgRank2(col, i) == 2 * Less(col, i) + Equal(col, i) + 1

NumIdx(col) == {i \in 1..Len(col) : ~IsNaN(col[i])}

NoTies(col) == \A i, j \in NumIdx(col) : i # j => Val(col[i]) # Val(col[j])

\* C2: normalize_score gives each value 100/N times the average rank of its
\* tie group (so tied values get identical scores); a column without ties
\* gets exactly the scores {100/N, 200/N, ..., 100}; and a larger value
\* always gets a larger score.  N is the number of values of the column;
\* scores are numerators over PctDen = 2*N.
C2_Percentile ==
    pc = "normalized" =>
        /\ Len(scores) = Len(values)
        /\ \A i \in NumIdx(values) :
              /\ ~IsNaN(scores[i])
              /\ Val(scores[i]) = 100 * AvgRank2(values, i)
        /\ \A i, j \in NumIdx(values) :
              /\ Val(values[i]) = Val(values[j]) => scores[i] = scores[j]
              /\ Val(values[i]) < Val(values[j]) => Val(scores[i]) < Val(scores[j])
        /\ NoTies(values) =>
              {Val(scores[i]) : i \in NumIdx(values)}
                  = {k * 100 * 2 : k \in 1..Count(values)}

\* a column of three values, two of them tied below the third, was normalized
C2_Witness ==
    /\ pc = "normalized"
    /\ Len(values) = 3 /\ NumIdx(values) = {1, 2, 3}
    /\ values[1] = values[3] /\ Val(values[1]) < Val(values[2])
    /\ Val(scores[1]) * 3 = 150 * PctDen(values)   \* 50 = 100/3 * 1.5
    /\ Val(scores[2]) = 100 * PctDen(values)       \* 100

(***************************************************************************)
(* filter_by_net_income.                                                   *)
(*                                                                         *)
(* stock.financials either raises, or gives a frame: has_net_income says   *)
(* whether 'Net Income' is in its index, ncols is len(columns), and        *)
(* net_income is the 'Net Income' row, one cell per column.  yfinance      *)
(* orders the columns from the most recent period to the oldest (the       *)
(* comment at line 117), so net_income[1] is the newest value.             *)
(***************************************************************************)
NPeriods == 3       \* the number of fiscal periods examined
ExtraPeriods == 1   \* frames have up to NPeriods + ExtraPeriods columns
MaxIncome == 2      \* net income values are 0..MaxIncome (or NaN)
MaxTickers == 2     \* longest ticker list in file 01

Tickers == {"A", "B"}

IncomeCells == {NaN} \cup {Num(x) : x \in 0..MaxIncome}

Financials ==
    {[kind |-> "raise"]}
    \cup {[kind |-> "frame", has_net_income |-> FALSE, ncols |-> n, net_income |-> <<>>] :
            n \in 0..(NPeriods + ExtraPeriods)}
    \cup {[kind |-> "frame", has_net_income |-> TRUE, ncols |-> Len(s), net_income |-> s] :
            s \in SeqsUpTo(IncomeCells, NPeriods + ExtraPeriods)}

\* x > 0 on a pandas cell: False for NaN
CellPositive(c) == ~IsNaN(c) /\ Val(c) > 0

\* a <= b on pandas cells: False when either is NaN
CellLE(a, b) == ~IsNaN(a) /\ ~IsNaN(b) /\ Val(a) <= Val(b)

\* a < b on pandas cells: False when either is NaN
CellLT(a, b) == ~IsNaN(a) /\ ~IsNaN(b) /\ Val(a) < Val(b)

\* (net_income_series > 0).all()
is_positive(series) == \A i \in 1..Len(series) : CellPositive(series[i])

\* a filter that demands strictly increasing net income
is_increasing(series) == CellLT(series[3], series[2]) /\ CellLT(series[2], series[1])

\* series.iloc[2] <= series.iloc[1] and series.iloc[1] <= series.iloc[0]
is_non_decreasing(series) == CellLE(series[3], series[2]) /\ CellLE(series[2], series[1])

\* the body of the try block: TRUE when the ticker is appended
KeepTicker(f) ==
    /\ f.kind = "frame"
    /\ ~(~f.has_net_income \/ f.ncols < NPeriods)
    /\ LET net_income_series == SubSeq(f.net_income, 1, NPeriods)
       IN  is_positive(net_income_series) /\ is_non_decreasing(net_income_series)

InitFilter ==
    /\ pc = "filter_start"
    /\ file01 \in {Absent} \cup {File(u) : u \in SeqsUpTo(Tickers, MaxTickers)}
    /\ file02 = Absent /\ file03 = Absent /\ file04 = Absent
    /\ data_dir \in (IF file01.exists THEN {TRUE} ELSE BOOLEAN)
    /\ IdleNorm /\ IdleUniverse /\ IdleFilter /\ IdleCollect /\ IdleScore
    /\ IdleLog /\ IdleTenK

\* lines 86-97: the input file is checked and read.  to_csv on line 92
\* does not create the directory of its path: without the directory data
\* it raises OSError, which nothing catches.
FilterStart ==
    /\ pc = "filter_start"
    /\ IF ~file01.exists
       THEN /\ IF data_dir
               THEN file02' = File(<<>>) /\ pc' = "filter_done"
               ELSE pc' = "raised" /\ UNCHANGED file02
            /\ UNCHANGED <<universe, tickers_to_keep, idx, failed>>
       ELSE /\ universe' = file01.rows
            /\ tickers_to_keep' = <<>>
            /\ idx' = 0
            /\ failed' = {}
            /\ pc' = "filter_loop"
            /\ UNCHANGED file02
    /\ UNCHANGED <<data_dir, file01, file03, file04, financials_df, normVars,
                   universeVars, collectVars, scoreVars, provider_log, tenkVars>>

\* lines 99-104: the loop takes the next ticker and asks the provider for
\* its financials; data is the set of possible answers
FilterFetch(data) ==
    /\ pc = "filter_loop"
    /\ idx < Len(universe)
    /\ \E f \in data : financials_df' = f
    /\ pc' = "filter_check"
    /\ provider_log' = LogAfter(provider_log, FilterEvents)
    /\ UNCHANGED <<universe, idx, tickers_to_keep, failed, fileVars, normVars, universeVars, collectVars, scoreVars,
                   data_dir, tenkVars>>

\* an iteration whose exception leaves the function: nothing is written
FilterCheckPropagates ==
    /\ pc = "filter_check"
    /\ IF financials_df.kind = "raise"
       THEN /\ pc' = "filter_done"
            /\ UNCHANGED <<tickers_to_keep, idx>>
       ELSE /\ tickers_to_keep' =
                  IF KeepTicker(financials_df)
                  THEN Append(tickers_to_keep, universe[idx + 1])
                  ELSE tickers_to_keep
            /\ idx' = idx + 1
            /\ pc' = "filter_loop"
    /\ failed' = IF financials_df.kind = "raise" THEN failed \cup {idx + 1} ELSE failed
    /\ financials_df' = NoFrame
    /\ UNCHANGED <<universe, fileVars, normVars, universeVars, collectVars, scoreVars,
                   provider_log, data_dir, tenkVars>>

\* an iteration that puts the ticker in front of the list
FilterCheckPrepend ==
    /\ pc = "filter_check"
    /\ tickers_to_keep' =
          IF KeepTicker(financials_df) THEN <<universe[idx + 1]>> \o tickers_to_keep
          ELSE tickers_to_keep
    /\ idx' = idx + 1
    /\ failed' = IF financials_df.kind = "raise" THEN failed \cup {idx + 1} ELSE failed
    /\ financials_df' = NoFrame
    /\ pc' = "filter_loop"
    /\ UNCHANGED <<universe, fileVars, normVars, universeVars, collectVars, scoreVars,
                   provider_log, data_dir, tenkVars>>

\* lines 106-127: the rest of the iteration.  financials_df is not read
\* again before the next iteration assigns it, and is cleared here.  The
\* history variable failed records the iterations that ended in the except
\* clause.
FilterCheck ==
    /\ pc = "filter_check"
    /\ tickers_to_keep' =
          IF KeepTicker(financials_df) THEN Append(tickers_to_keep, universe[idx + 1])
          ELSE tickers_to_keep
    /\ idx' = idx + 1
    /\ failed' = IF financials_df.kind = "raise" THEN failed \cup {idx + 1} ELSE failed
    /\ financials_df' = NoFrame
    /\ pc' = "filter_loop"
    /\ UNCHANGED <<universe, fileVars, normVars, universeVars, collectVars, scoreVars,
                   provider_log, data_dir, tenkVars>>

\* lines 129-132: the survivors are written
FilterWrite ==
    /\ pc = "filter_loop"
    /\ idx = Len(universe)
    /\ file02' = File(tickers_to_keep)
    /\ pc' = "filter_done"
    /\ UNCHANGED <<file01, file03, file04, filterVars, normVars, universeVars, collectVars, scoreVars,
                   provider_log, data_dir, tenkVars>>

NextFilter == FilterStart \/ FilterFetch(Financials) \/ FilterCheck \/ FilterWrite

SpecFilter == InitFilter /\ [][NextFilter]_vars

(***************************************************************************)
(* C1.                                                                     *)
(***************************************************************************)
\* the claim's condition on what the provider gave: a Net Income line with
\* at least 3 periods whose 3 most recent values are numbers, all strictly
\* positive, and oldest <= middle <= newest
PassesNetIncome(f) ==
    /\ f.kind = "frame"
    /\ f.has_net_income
    /\ f.ncols >= 3
    /\ LET newest == f.net_income[1]
           middle == f.net_income[2]
           oldest == f.net_income[3]
       IN  /\ \A c \in {newest, middle, oldest} : ~IsNaN(c) /\ Val(c) > 0
           /\ Val(oldest) <= Val(middle)
           /\ Val(middle) <= Val(newest)

\* C1: for every ticker of the universe, the filter appends the ticker to
\* the survivors if and only if the provider returned a Net Income line
\* with at least 3 periods whose 3 most recent values are all strictly
\* positive and non-decreasing in chronological order; otherwise (fewer
\* periods, no Net Income line, a non-positive or decreasing value, a
\* provider failure) the survivors are left as they were; and the file
\* written is the list of survivors.
C1_RetainedIff ==
    [][/\ idx' = idx + 1 =>
            IF PassesNetIncome(financials_df)
            THEN tickers_to_keep' = Append(tickers_to_keep, universe[idx'])
            ELSE tickers_to_keep' = tickers_to_keep
       /\ pc' = "filter_check" => idx' = idx /\ idx < Len(universe)
       /\ (pc = "filter_loop" /\ pc' = "filter_done") =>
            idx = Len(universe) /\ file02' = File(tickers_to_keep)
      ]_vars

\* the filter has run over two tickers, dropped the first, retained the
\* second and written the second alone
C1_Witness ==
    /\ pc = "filter_done"
    /\ Len(universe) = 2 /\ idx = 2
    /\ tickers_to_keep = <<universe[2]>>
    /\ file02 = File(<<universe[2]>>)

(***************************************************************************)
(* calculate_screening_scores.                                             *)
(*                                                                         *)
(* A row of file 03 is a record of the ticker and its metric cells.  The   *)
(* rows of the model's snapshots are: every metric missing; every metric   *)
(* 0; every metric 0 but one, which is 1; every metric 0 but the two       *)
(* option metrics, which are missing.                                      *)
(***************************************************************************)
MaxRows == 3      \* most rows in file 03
MaxReorderRows == 2   \* most rows in file 03 where every reordering is scored

Lookback == 21    \* spy_hist['Close'].iloc[-21]

TickerNames == <<"A", "B", "C", "D", "E", "F">>

\* the metric columns of file 03 (lines 257-261)
MetricColumns ==
    {"Historical_Vol", "Volume_Ratio", "Avg_Volume_20d",
     "Price_Change_1d", "Price_Change_5d", "Price_Change_20d",
     "Options_Proxy", "Put_Call_Proxy", "Short_Ratio", "Short_Percent"}

\* a row whose metrics are all the cell c
UniformBag(c) == [f \in MetricColumns |-> c]

Bags ==
    {UniformBag(NaN), UniformBag(Num(0))}
    \cup {[UniformBag(Num(0)) EXCEPT ![f] = Num(Unit)] : f \in MetricColumns \ {"Avg_Volume_20d"}}
    \cup {[UniformBag(Num(0)) EXCEPT !.Options_Proxy = NaN, !.Put_Call_Proxy = NaN]}

\* the snapshots of at most n rows; the tickers of a snapshot are distinct
SnapshotsUpTo(n) ==
    {Tuple([i \in 1..Len(s) |-> s[i] @@ [Ticker |-> TickerNames[i]]]) :
        s \in SeqsUpTo(Bags, n)}

Snapshots == SnapshotsUpTo(MaxRows)

\* spy.history(period="30d") raises, or gives a frame whose 'Close' column
\* is n cells long: back everywhere but the last cell
SpyFrame(n, back, last) ==
    [kind |-> "frame", Close |-> [i \in 1..n |-> IF i = n THEN last ELSE back]]

SpyOutcomes ==
    {[kind |-> "raise"], SpyFrame(Lookback - 1, 1, 1), SpyFrame(Lookback, 1, 2)}

\* spy_return_20d = 2.0  # Default benchmark
DefaultBenchmark == 2

\* the benchmark return with 0 substituted when it cannot be obtained
SpyReturnZero(h) ==
    IF h.kind = "raise" \/ Len(h.Close) < Lookback
    THEN [num |-> 0, den |-> 1]
    ELSE LET last == h.Close[Len(h.Close)]
             back == h.Close[Len(h.Close) - Lookback + 1]
         IN  [num |-> (last - back) * 100, den |-> back]

\* lines 299-304: the benchmark return as a fraction num/den; iloc[-1] and
\* iloc[-21] raise IndexError on a shorter column, and the bare except
\* substitutes the default
SpyReturn(h) ==
    IF h.kind = "raise" \/ Len(h.Close) < Lookback
    THEN [num |-> DefaultBenchmark, den |-> 1]
    ELSE LET last == h.Close[Len(h.Close)]
             back == h.Close[Len(h.Close) - Lookback + 1]
         IN  [num |-> (last - back) * 100, den |-> back]

\* arithmetic on cells; NaN propagates
CellMul(k, c) == IF IsNaN(c) THEN NaN ELSE Num(k * Val(c))

CellAdd(a, b) == IF IsNaN(a) \/ IsNaN(b) THEN NaN ELSE Num(Val(a) + Val(b))

ColMul(k, col) == Tuple([i \in 1..Len(col) |-> CellMul(k, col[i])])

ColAdd(x, y) == Tuple([i \in 1..Len(x) |-> CellAdd(x[i], y[i])])

\* df[name]
Column(rows, name) == Tuple([i \in 1..Len(rows) |-> rows[i][name]])

\* the price composite with the 5-day and 20-day weights exchanged
price_composite_swapped(rows) ==
    ColAdd(ColAdd(ColMul(5, fillna(Column(rows, "Price_Change_1d"), 0)),
                  ColMul(2, fillna(Column(rows, "Price_Change_5d"), 0))),
           ColMul(3, fillna(Column(rows, "Price_Change_20d"), 0)))

\* lines 310-312, tenfold: 5*c1 + 3*c5 + 2*c20
price_composite(rows) ==
    ColAdd(ColAdd(ColMul(5, fillna(Column(rows, "Price_Change_1d"), 0)),
                  ColMul(3, fillna(Column(rows, "Price_Change_5d"), 0))),
           ColMul(2, fillna(Column(rows, "Price_Change_20d"), 0)))

\* the relative strength with a missing change filled with 0 after the
\* benchmark is subtracted
relative_strength_late_fill(rows, spy) ==
    fillna(ColAdd(ColMul(spy.den, Column(rows, "Price_Change_20d")),
                  Tuple([i \in 1..Len(rows) |-> Num(0 - Unit * spy.num)])), 0)

\* line 316, den-fold: c20 * den - Unit * num  (den > 0)
relative_strength(rows, spy) ==
    ColAdd(ColMul(spy.den, fillna(Column(rows, "Price_Change_20d"), 0)),
           Tuple([i \in 1..Len(rows) |-> Num(0 - Unit * spy.num)]))

\* the options composite with a missing put/call proxy imputed as 0
options_composite_zero(rows) ==
    ColAdd(ColMul(7, normalize_score(fillna(Column(rows, "Options_Proxy"), 0))),
           ColMul(3, normalize_score(fillna(Column(rows, "Put_Call_Proxy"), 0))))

\* lines 323-324, over SubDen: 7 * pct(options) + 3 * pct(put/call)
options_composite(rows) ==
    ColAdd(ColMul(7, normalize_score(fillna(Column(rows, "Options_Proxy"), 0))),
           ColMul(3, normalize_score(fillna(Column(rows, "Put_Call_Proxy"), Unit))))

\* lines 328-330, over SubDen
squeeze_composite(rows) ==
    ColAdd(ColAdd(ColMul(5, normalize_score(fillna(Column(rows, "Short_Percent"), 0))),
                  ColMul(3, normalize_score(fillna(Column(rows, "Short_Ratio"), 0)))),
           ColMul(2, normalize_score(fillna(Column(rows, "Price_Change_5d"), 0))))

\* lines 307-331: the six sub-score columns, over SubDen = 20 * N
SubScores(rows, spy) ==
    [Volume_Score |->
        ColMul(10, normalize_score(fillna(Column(rows, "Volume_Ratio"), 0))),
     Price_Change_Score |-> ColMul(10, normalize_score(price_composite(rows))),
     Relative_Strength_Score |->
        ColMul(10, normalize_score(relative_strength(rows, spy))),
     Historical_Vol_Score |->
        ColMul(10, normalize_score(fillna(Column(rows, "Historical_Vol"), 0))),
     Options_Score |-> options_composite(rows),
     Short_Squeeze_Score |-> squeeze_composite(rows)]

\* lines 334-341: the weighted sum, over CompDen = 2000 * N
Composite(sub, w) ==
    ColAdd(ColAdd(ColAdd(ColMul(w.volume_score, sub.Volume_Score),
                         ColMul(w.price_change_score, sub.Price_Change_Score)),
                  ColAdd(ColMul(w.relative_strength_score, sub.Relative_Strength_Score),
                         ColMul(w.historical_vol_score, sub.Historical_Vol_Score))),
           ColAdd(ColMul(w.options_score, sub.Options_Score),
                  ColMul(w.short_squeeze_score, sub.Short_Squeeze_Score)))

\* Series.rank(ascending=True): the lowest composite gets rank 1
RankAscending(composite) == Rank2(composite, TRUE)

\* rank(ascending=False, method='first'): ties ranked in input order
RankFirst(composite) == Rank2First(composite, FALSE)

\* line 344: df['Composite_Score'].rank(ascending=False), doubled
RankColumn(composite) == Rank2(composite, FALSE)

\* lines 306-344: the frame with its score columns, rows in input order;
\* index is the row label pandas keeps (it is not written to the file)
ScoredRows(rows, spy, w) ==
    LET sub == SubScores(rows, spy)
        comp == Composite(sub, w)
        rank == RankColumn(comp)
    IN  Tuple([i \in 1..Len(rows) |->
            rows[i] @@
            [index |-> i,
             Volume_Score |-> sub.Volume_Score[i],
             Price_Change_Score |-> sub.Price_Change_Score[i],
             Relative_Strength_Score |-> sub.Relative_Strength_Score[i],
             Historical_Vol_Score |-> sub.Historical_Vol_Score[i],
             Options_Score |-> sub.Options_Score[i],
             Short_Squeeze_Score |-> sub.Short_Squeeze_Score[i],
             Composite_Score |-> comp[i],
             Rank |-> rank[i]]])

Perms(n) == {p \in [1..n -> 1..n] : \A i, j \in 1..n : i # j => p[i] # p[j]}

\* a may stand before b in a column sorted descending, NaN last
MayPrecede(a, b) == IsNaN(b) \/ (~IsNaN(a) /\ Val(a) >= Val(b))

\* line 345: sort_values('Composite_Score', ascending=False).  The default
\* sort is not stable: rows of equal score come out in any order.
SortedFrames(rows) ==
    {Tuple([k \in 1..Len(rows) |-> rows[p[k]]]) :
        p \in {q \in Perms(Len(rows)) :
                 \A k \in 1..(Len(rows) - 1) :
                    MayPrecede(rows[q[k]].Composite_Score, rows[q[k + 1]].Composite_Score)}}

\* to_csv(index=False)
WithoutIndex(rows) ==
    Tuple([k \in 1..Len(rows) |-> [f \in DOMAIN rows[k] \ {"index"} |-> rows[k][f]]])

InitScore ==
    /\ pc = "score_start"
    /\ file01 = Absent /\ file02 = Absent /\ file04 = Absent
    /\ file03 \in {Absent} \cup {File(s) : s \in Snapshots}
    /\ weights = SCREENING_WEIGHTS
    /\ spy_hist = NoFrame /\ spy_return_20d = [num |-> 0, den |-> 1] /\ df = <<>>
    /\ data_dir = TRUE
    /\ IdleNorm /\ IdleUniverse /\ IdleFilter /\ IdleCollect
    /\ IdleLog /\ IdleTenK

\* lines 291-304: the input file is checked and read, the benchmark fetched
ScoreBenchmark ==
    /\ pc = "score_start"
    /\ IF ~file03.exists
       THEN /\ pc' = "score_done"
            /\ UNCHANGED <<spy_hist, spy_return_20d, df>>
       ELSE /\ \E h \in SpyOutcomes :
                  /\ spy_hist' = h
                  /\ spy_return_20d' = SpyReturn(h)
            /\ df' = file03.rows
            /\ pc' = "score_compute"
    /\ provider_log' = IF file03.exists THEN LogAfter(provider_log, ScoreEvents)
                       ELSE provider_log
    /\ UNCHANGED <<weights, fileVars, filterVars, normVars, universeVars, collectVars,
                   data_dir, tenkVars>>

\* lines 306-348: the scores, the rank, the sort and the output file
ScoreCompute ==
    /\ pc = "score_compute"
    /\ \E sorted \in SortedFrames(ScoredRows(df, spy_return_20d, weights)) :
          /\ df' = sorted
          /\ file04' = File(WithoutIndex(sorted))
    /\ pc' = "score_done"
    /\ UNCHANGED <<weights, spy_hist, spy_return_20d, file01, file02, file03,
                   filterVars, normVars, universeVars, collectVars,
                   provider_log, data_dir, tenkVars>>

NextScore == ScoreBenchmark \/ ScoreCompute

SpecScore == InitScore /\ [][NextScore]_vars

\* the scorer on the smaller snapshots
InitReorder ==
    /\ pc = "score_start"
    /\ file01 = Absent /\ file02 = Absent /\ file04 = Absent
    /\ file03 \in {Absent} \cup {File(s) : s \in SnapshotsUpTo(MaxReorderRows)}
    /\ weights = SCREENING_WEIGHTS
    /\ spy_hist = NoFrame /\ spy_return_20d = [num |-> 0, den |-> 1] /\ df = <<>>
    /\ data_dir = TRUE
    /\ IdleNorm /\ IdleUniverse /\ IdleFilter /\ IdleCollect
    /\ IdleLog /\ IdleTenK

SpecReorder == InitReorder /\ [][NextScore]_vars

\* SCREENING_WEIGHTS as the script has it, or edited: volume_score 0.30,
\* which makes the sum 1.10
WeightConfigs == {SCREENING_WEIGHTS, [SCREENING_WEIGHTS EXCEPT !.volume_score = 30]}

\* the scorer run with an edited weight configuration
InitConfig ==
    /\ pc = "score_start"
    /\ file01 = Absent /\ file02 = Absent /\ file04 = Absent
    /\ file03 \in {Absent} \cup {File(s) : s \in SnapshotsUpTo(MaxReorderRows)}
    /\ weights \in WeightConfigs
    /\ spy_hist = NoFrame /\ spy_return_20d = [num |-> 0, den |-> 1] /\ df = <<>>
    /\ data_dir = TRUE
    /\ IdleNorm /\ IdleUniverse /\ IdleFilter /\ IdleCollect
    /\ IdleLog /\ IdleTenK

SpecConfig == InitConfig /\ [][NextScore]_vars

(***************************************************************************)
(* Claims about calculate_screening_scores.  They are stated on the frame  *)
(* the program ends with (df, sorted; file 04 is df without its index)     *)
(* against the rows of file 03, with the percentile computed by counting.  *)
(***************************************************************************)
Scored == pc = "score_done" /\ file03.exists

InputRows == file03.rows

NRows == Len(InputRows)

\* denominators: a sub-score s stands for s / SubDen, a composite c for c / CompDen
SubDen == 20 * NRows

CompDen == 2000 * NRows

\* the value of a cell with a missing value imputed as d
Imputed(c, d) == IF IsNaN(c) THEN d ELSE Val(c)

\* the input column `name` as numbers, missing values imputed as d
InputCol(name, d) == [i \in 1..NRows |-> Num(Imputed(InputRows[i][name], d))]

\* the percentile of cell i of a column of numbers, as a numerator over 2 * N
Pct(col, i) == 100 * AvgRank2(col, i)

PriceCol ==
    [i \in 1..NRows |->
        Num(5 * Imputed(InputRows[i].Price_Change_1d, 0)
            + 3 * Imputed(InputRows[i].Price_Change_5d, 0)
            + 2 * Imputed(InputRows[i].Price_Change_20d, 0))]

\* change_20d - benchmark, times the (positive) denominator of the benchmark
StrengthCol ==
    [i \in 1..NRows |->
        Num(Imputed(InputRows[i].Price_Change_20d, 0) * spy_return_20d.den
            - Unit * spy_return_20d.num)]

ScoreFields ==
    {"Volume_Score", "Price_Change_Score", "Relative_Strength_Score",
     "Historical_Vol_Score", "Options_Score", "Short_Squeeze_Score"}

\* C3: for every row, Price_Change_Score = percentile(0.5*change_1d +
\* 0.3*change_5d + 0.2*change_20d), Relative_Strength_Score =
\* percentile(change_20d - benchmark), Options_Score = 0.7*percentile(
\* options_proxy) + 0.3*percentile(put_call_proxy), Short_Squeeze_Score =
\* 0.5*percentile(short_percent) + 0.3*percentile(short_ratio) +
\* 0.2*percentile(change_5d), and Composite_Score = 0.20*Volume_Score +
\* 0.25*Price_Change_Score + 0.20*Relative_Strength_Score +
\* 0.15*Historical_Vol_Score + 0.10*Options_Score + 0.10*Short_Squeeze_Score.
C3_ScoreFormulas ==
    Scored =>
        \A k \in 1..Len(df) :
            LET r == df[k]
                i == r.index
            IN  /\ r.Ticker = InputRows[i].Ticker
                /\ r.Volume_Score = Num(10 * Pct(InputCol("Volume_Ratio", 0), i))
                /\ r.Historical_Vol_Score = Num(10 * Pct(InputCol("Historical_Vol", 0), i))
                /\ r.Price_Change_Score = Num(10 * Pct(PriceCol, i))
                /\ r.Relative_Strength_Score = Num(10 * Pct(StrengthCol, i))
                /\ r.Options_Score =
                      Num(7 * Pct(InputCol("Options_Proxy", 0), i)
                          + 3 * Pct(InputCol("Put_Call_Proxy", Unit), i))
                /\ r.Short_Squeeze_Score =
                      Num(5 * Pct(InputCol("Short_Percent", 0), i)
                          + 3 * Pct(InputCol("Short_Ratio", 0), i)
                          + 2 * Pct(InputCol("Price_Change_5d", 0), i))
                /\ r.Composite_Score =
                      Num(20 * Val(r.Volume_Score)
                          + 25 * Val(r.Price_Change_Score)
                          + 20 * Val(r.Relative_Strength_Score)
                          + 15 * Val(r.Historical_Vol_Score)
                          + 10 * Val(r.Options_Score)
                          + 10 * Val(r.Short_Squeeze_Score))

\* three rows were scored whose price composites are all different and
\* whose 5-day changes are not in the order of the composites
C3_Witness ==
    /\ Scored
    /\ Len(df) = 3
    /\ NoTies(PriceCol)
    /\ \E i, j \in 1..3 :
          /\ Val(PriceCol[i]) < Val(PriceCol[j])
          /\ Imputed(InputRows[i].Price_Change_5d, 0) > Imputed(InputRows[j].Price_Change_5d, 0)

\* C4: in every output of the scorer, each of the six sub-scores and the
\* composite score of every ticker is a number in [0, 100], whatever values
\* are missing in the input.
C4_ScoresInRange ==
    Scored =>
        /\ file04.exists
        /\ \A k \in 1..Len(file04.rows) :
              LET r == file04.rows[k]
              IN  /\ \A f \in ScoreFields :
                        /\ ~IsNaN(r[f])
                        /\ 0 <= Val(r[f])
                        /\ Val(r[f]) <= 100 * SubDen
                  /\ ~IsNaN(r.Composite_Score)
                  /\ 0 <= Val(r.Composite_Score)
                  /\ Val(r.Composite_Score) <= 100 * CompDen

\* three rows were scored, one with every metric missing and one with the
\* volume score 100
C4_Witness ==
    /\ Scored
    /\ Len(file04.rows) = 3
    /\ \E i \in 1..3 : \A f \in MetricColumns : IsNaN(InputRows[i][f])
    /\ \E k \in 1..3 : Val(file04.rows[k].Volume_Score) = 100 * SubDen

\* C5: the output is sorted by composite score descending, and for any two
\* tickers a strictly higher composite score gives a strictly smaller rank
\* and equal composite scores give the same rank.
C5_SortedAndRanked ==
    Scored =>
        /\ file04.exists
        /\ Len(file04.rows) = NRows
        /\ \A k \in 1..(Len(file04.rows) - 1) :
              Val(file04.rows[k].Composite_Score) >= Val(file04.rows[k + 1].Composite_Score)
        /\ \A k, m \in 1..Len(file04.rows) :
              LET x == file04.rows[k]
                  y == file04.rows[m]
              IN  /\ Val(x.Composite_Score) > Val(y.Composite_Score)
                        => Val(x.Rank) < Val(y.Rank)
                  /\ x.Composite_Score = y.Composite_Score => x.Rank = y.Rank

\* three rows were written: the last input row first, and two rows of equal
\* composite score after it
C5_Witness ==
    /\ Scored
    /\ Len(file04.rows) = 3
    /\ file04.rows[1].Ticker = InputRows[3].Ticker
    /\ Val(file04.rows[1].Composite_Score) > Val(file04.rows[2].Composite_Score)
    /\ file04.rows[2].Composite_Score = file04.rows[3].Composite_Score

\* the composite scores of the output, as a column
OutComposite == [k \in 1..Len(file04.rows) |-> file04.rows[k].Composite_Score]

\* C6 as claimed: the Rank of each ticker is an integer, 1 for the highest
\* composite score, tickers of equal composite score get distinct ranks in
\* their input order, and the ranks of N tickers are exactly 1..N.
C6_IntegerRanks ==
    Scored =>
        /\ \A k \in 1..Len(df) : Val(df[k].Rank) % 2 = 0
        /\ {Val(df[k].Rank) : k \in 1..Len(df)} = {2 * n : n \in 1..NRows}
        /\ \A k, m \in 1..Len(df) :
              (df[k].Composite_Score = df[m].Composite_Score /\ df[k].index < df[m].index)
                  => Val(df[k].Rank) < Val(df[m].Rank)

\* C6 amended: the Rank of a ticker is the average position of its tie
\* group in descending order of composite score: with H tickers of
\* strictly higher score and E tickers of the same score (itself included)
\* it is H + (E + 1) / 2.  So a single highest score has rank 1, tickers of
\* equal score share one rank, which is fractional when E is even, and the
\* ranks are the integers 1..N exactly when no two composite scores are
\* equal.
C6_AverageRanks ==
    Scored =>
        /\ \A k \in 1..Len(file04.rows) :
              LET c == Val(file04.rows[k].Composite_Score)
                  H == Cardinality({m \in 1..Len(file04.rows) : Val(OutComposite[m]) > c})
                  E == Cardinality({m \in 1..Len(file04.rows) : Val(OutComposite[m]) = c})
              IN  file04.rows[k].Rank = Num(2 * H + E + 1)
        /\ NoTies(OutComposite) <=>
              /\ \A k \in 1..Len(file04.rows) : Val(file04.rows[k].Rank) % 2 = 0
              /\ {Val(file04.rows[k].Rank) : k \in 1..Len(file04.rows)}
                    = {2 * n : n \in 1..NRows}

\* three rows were ranked: two share the highest composite score and the
\* rank 1.5, the third has rank 3
C6_Witness ==
    /\ Scored
    /\ Len(file04.rows) = 3
    /\ file04.rows[1].Composite_Score = file04.rows[2].Composite_Score
    /\ file04.rows[1].Rank = Num(3) /\ file04.rows[2].Rank = Num(3)
    /\ file04.rows[3].Rank = Num(6)

\* the percentile of the number v in a column of numbers that holds it
PctOfValue(col, v) ==
    100 * (2 * Cardinality({j \in 1..Len(col) : Val(col[j]) < v})
           + Cardinality({j \in 1..Len(col) : Val(col[j]) = v}) + 1)

AllMissing(row) == \A f \in MetricColumns : IsNaN(row[f])

\* C8: a ticker whose metrics are all missing is scored: each missing value
\* is imputed as 0 (1 for the put/call proxy), every sub-score of the
\* ticker is the percentile of the imputed value within its column, and its
\* composite score and rank are numbers, not NaN.
C8_AllMissingScored ==
    Scored =>
        /\ Len(df) = NRows
        /\ \A k \in 1..Len(df) :
              LET r == df[k]
              IN  AllMissing(InputRows[r.index]) =>
                    /\ r.Volume_Score =
                          Num(10 * PctOfValue(InputCol("Volume_Ratio", 0), 0))
                    /\ r.Historical_Vol_Score =
                          Num(10 * PctOfValue(InputCol("Historical_Vol", 0), 0))
                    /\ r.Price_Change_Score = Num(10 * PctOfValue(PriceCol, 0))
                    /\ r.Relative_Strength_Score =
                          Num(10 * PctOfValue(StrengthCol, 0 - Unit * spy_return_20d.num))
                    /\ r.Options_Score =
                          Num(7 * PctOfValue(InputCol("Options_Proxy", 0), 0)
                              + 3 * PctOfValue(InputCol("Put_Call_Proxy", Unit), Unit))
                    /\ r.Short_Squeeze_Score =
                          Num(5 * PctOfValue(InputCol("Short_Percent", 0), 0)
                              + 3 * PctOfValue(InputCol("Short_Ratio", 0), 0)
                              + 2 * PctOfValue(InputCol("Price_Change_5d", 0), 0))
                    /\ ~IsNaN(r.Composite_Score)
                    /\ ~IsNaN(r.Rank)
                    /\ \E m \in 1..Len(file04.rows) :
                          /\ file04.rows[m].Ticker = r.Ticker
                          /\ file04.rows[m].Composite_Score = r.Composite_Score
                          /\ file04.rows[m].Rank = r.Rank

\* a ticker with every metric missing was scored beside one whose put/call
\* proxy is 0 and one whose put/call proxy is 1: its put/call percentile is
\* that of the value 1, tied with the one and above the other
C8_Witness ==
    /\ Scored
    /\ NRows = 3
    /\ AllMissing(InputRows[2])
    /\ InputRows[1].Put_Call_Proxy = Num(0)
    /\ InputRows[3].Put_Call_Proxy = Num(Unit)
    /\ \E k \in 1..3 : df[k].index = 2 /\ ~IsNaN(df[k].Composite_Score)

BenchmarkFailed == spy_hist.kind = "raise" \/ (spy_hist.kind = "frame" /\ Len(spy_hist.Close) < 21)

\* a row of the output carries numbers in all its score columns and its rank
RowScored(r) ==
    /\ \A f \in ScoreFields : ~IsNaN(r[f])
    /\ ~IsNaN(r.Composite_Score)
    /\ ~IsNaN(r.Rank)

\* C9: if the SPY 20-day return cannot be obtained (the fetch raises, or
\* the history is shorter than 21 rows), the scorer uses 2.0 in its place
\* and still completes (the scoring step that follows can be taken),
\* writing a scored and ranked row for every input ticker.
C9_BenchmarkFallback ==
    BenchmarkFailed =>
        /\ spy_return_20d = [num |-> 2, den |-> 1]
        /\ pc \in {"score_compute", "score_done"}
        /\ pc = "score_compute" =>
              SortedFrames(ScoredRows(df, spy_return_20d, weights)) # {}
        /\ pc = "score_done" =>
              /\ file04.exists
              /\ Len(file04.rows) = NRows
              /\ \A i \in 1..NRows :
                    Cardinality({k \in 1..Len(file04.rows) :
                                    file04.rows[k].Ticker = InputRows[i].Ticker}) = 1
              /\ \A k \in 1..Len(file04.rows) : RowScored(file04.rows[k])
              /\ \A k \in 1..Len(df) :
                    df[k].Relative_Strength_Score =
                        Num(10 * Pct([i \in 1..NRows |->
                                Num(Imputed(InputRows[i].Price_Change_20d, 0) - 2)], df[k].index))

\* the SPY history came 20 rows long, and three tickers were scored and
\* written with different relative-strength scores
C9_Witness ==
    /\ pc = "score_done"
    /\ spy_hist.kind = "frame" /\ Len(spy_hist.Close) = 20
    /\ file04.exists /\ Len(file04.rows) = 3
    /\ file04.rows[1].Relative_Strength_Score # file04.rows[3].Relative_Strength_Score

\* the rows of file 03 in the order p: row k of the result is row p[k]
Reordered(p) == Tuple([k \in 1..NRows |-> InputRows[p[k]]])

SameScores(x, y) ==
    /\ \A f \in ScoreFields : x[f] = y[f]
    /\ x.Composite_Score = y.Composite_Score

\* C7: for any permutation of the rows of the snapshot, the scorer gives
\* each ticker the same six sub-scores and the same composite score as it
\* gave it in the run on the snapshot as it is.
C7_OrderIndependent ==
    Scored =>
        \A p \in Perms(NRows) :
            LET other == ScoredRows(Reordered(p), spy_return_20d, weights)
            IN  \A k \in 1..NRows : \A m \in 1..Len(df) :
                    df[m].index = p[k] =>
                        /\ other[k].Ticker = df[m].Ticker
                        /\ SameScores(other[k], df[m])

\* two different rows were scored that tie in volume ratio, so that a
\* ranking by position would tell them apart, and they got the same
\* Volume_Score
C7_Witness ==
    /\ Scored
    /\ NRows = 2 /\ Len(df) = 2
    /\ InputRows[1].Volume_Ratio = Num(0)
    /\ InputRows[2].Volume_Ratio = Num(0)
    /\ InputRows[1].Price_Change_1d # InputRows[2].Price_Change_1d
    /\ df[1].Volume_Score = df[2].Volume_Score
    /\ df[1].Composite_Score # df[2].Composite_Score

WeightSum(w) ==
    w.volume_score + w.price_change_score + w.relative_strength_score
    + w.historical_vol_score + w.options_score + w.short_squeeze_score

\* C10: the weight configuration is validated before any processing: with
\* weights that do not sum to 1.0 the scorer raises ConfigurationError
\* before it fetches or scores anything, so no scores are ever written
\* under such weights.
C10_WeightsValidated ==
    WeightSum(weights) # 100 => ~file04.exists

(***************************************************************************)
(* Claims about the loop of filter_by_net_income.                          *)
(***************************************************************************)
\* C11: a provider failure while one ticker is checked drops only that
\* ticker: the iteration that raised appends nothing and the loop goes on;
\* a ticker checked after a failure is still kept or dropped on its own
\* net income; the pass ends with every ticker of the universe evaluated
\* and file 02 written, and when every ticker failed file 02 holds no
\* ticker.
C11_FailureIsolated ==
    /\ []((pc = "filter_done" /\ file01.exists) =>
            /\ idx = Len(universe)
            /\ file02 = File(tickers_to_keep)
            /\ Len(tickers_to_keep) + Cardinality(failed) <= Len(universe)
            /\ (failed = 1..Len(universe) => file02.rows = <<>>))
    /\ [][/\ (pc = "filter_check" /\ financials_df.kind = "raise") =>
                /\ tickers_to_keep' = tickers_to_keep
                /\ idx' = idx + 1
                /\ pc' = "filter_loop"
          /\ (pc = "filter_check" /\ failed # {} /\ financials_df.kind # "raise") =>
                /\ idx' = idx + 1
                /\ tickers_to_keep' =
                      IF PassesNetIncome(financials_df)
                      THEN Append(tickers_to_keep, universe[idx'])
                      ELSE tickers_to_keep]_vars

\* the provider raised on the first of two tickers, the second was kept
\* and file 02 holds it
C11_Witness ==
    /\ pc = "filter_done"
    /\ Len(universe) = 2
    /\ failed = {1}
    /\ tickers_to_keep = <<universe[2]>>
    /\ file02 = File(<<universe[2]>>)

\* s is a subsequence of t: s is t with some entries left out
IsSubsequence(s, t) ==
    \E f \in [1..Len(s) -> 1..Len(t)] :
        /\ \A i, j \in 1..Len(s) : i < j => f[i] < f[j]
        /\ \A i \in 1..Len(s) : s[i] = t[f[i]]

\* C13: the output of the filter is a subsequence of its input universe:
\* the survivors are in the order they have in file 01 and no ticker that
\* is not in file 01 is in file 02.
C13_OutputSubsequence ==
    pc = "filter_done" =>
        /\ file02.exists
        /\ IsSubsequence(file02.rows, file01.rows)
        /\ \A i \in 1..Len(file02.rows) :
              \E j \in 1..Len(file01.rows) : file02.rows[i] = file01.rows[j]

\* two different tickers were both kept, in the order of file 01
C13_Witness ==
    /\ pc = "filter_done"
    /\ file01.exists /\ Len(file01.rows) = 2
    /\ file01.rows[1] # file01.rows[2]
    /\ file02 = File(file01.rows)


(***************************************************************************)
(* get_sp500_tickers and create_dataframe_with_tickers.  pd.read_html      *)
(* raises, or gives a list of tables; a table is a function from its       *)
(* column names to columns of one length.  The creation of the data        *)
(* directory (lines 67-68) is left out: the files are the state.           *)
(***************************************************************************)
MaxListing == 2     \* most rows of the listing's table
MaxTestCount == 3   \* test_count is 0..MaxTestCount

ColumnNames == {"Symbol", "Ticker symbol", "Security"}

\* the sequences over S of length n
SeqsOfLen(S, n) == {s \in SeqsUpTo(S, n) : Len(s) = n}

Tables ==
    UNION {UNION {[C -> SeqsOfLen(Tickers, n)] : n \in 0..MaxListing} :
              C \in SUBSET ColumnNames}

Listings ==
    {[kind |-> "raise"], [kind |-> "tables", tables |-> <<>>]}
    \cup {[kind |-> "tables", tables |-> <<t>>] : t \in Tables}

\* what a call gives its caller
Returns(v) == [raised |-> FALSE, value |-> v]

Raises == [raised |-> TRUE, value |-> <<>>]

\* get_sp500_tickers with the ValueError of line 52 escaping the function
get_sp500_tickers_uncaught(l) ==
    IF l.kind = "raise" \/ Len(l.tables) = 0
    THEN Returns(<<>>)
    ELSE LET table == l.tables[1]
         IN  IF "Symbol" \in DOMAIN table THEN Returns(table["Symbol"])
             ELSE IF "Ticker symbol" \in DOMAIN table THEN Returns(table["Ticker symbol"])
             ELSE Raises

\* lines 39-58: every exception of the try block, the IndexError of
\* tables[0] and the ValueError of line 52 included, ends in return []
get_sp500_tickers(l) ==
    IF l.kind = "raise" \/ Len(l.tables) = 0
    THEN Returns(<<>>)
    ELSE LET table == l.tables[1]
         IN  IF "Symbol" \in DOMAIN table THEN Returns(table["Symbol"])
             ELSE IF "Ticker symbol" \in DOMAIN table THEN Returns(table["Ticker symbol"])
             ELSE Returns(<<>>)

\* the last n entries: tickers[-n:] for n > 0
Last_n(s, n) == SubSeq(s, IF n < Len(s) THEN Len(s) - n + 1 ELSE 1, Len(s))

\* tickers[:n]
Head_n(s, n) == SubSeq(s, 1, IF n < Len(s) THEN n ELSE Len(s))

InitUniverse ==
    /\ pc = "universe_start"
    /\ listing \in Listings
    /\ test_mode \in BOOLEAN
    /\ test_count \in 0..MaxTestCount
    /\ tickers = <<>>
    /\ file01 = Absent /\ file02 = Absent /\ file03 = Absent /\ file04 = Absent
    /\ data_dir \in BOOLEAN
    /\ IdleNorm /\ IdleFilter /\ IdleCollect /\ IdleScore
    /\ IdleLog /\ IdleTenK

\* line 62
GetTickers ==
    /\ pc = "universe_start"
    /\ LET r == get_sp500_tickers(listing)
       IN  IF r.raised
           THEN pc' = "raised" /\ UNCHANGED tickers
           ELSE pc' = "universe_create" /\ tickers' = r.value
    /\ UNCHANGED <<listing, test_mode, test_count, fileVars, normVars,
                   filterVars, collectVars, scoreVars,
                   provider_log, data_dir, tenkVars>>

\* lines 63-76; lines 66-67 create the directory data when it is missing
CreateDataframe ==
    /\ pc = "universe_create"
    /\ IF tickers = <<>>
       THEN UNCHANGED <<tickers, data_dir, file01>>
       ELSE /\ data_dir' = TRUE
            /\ tickers' = IF test_mode THEN Head_n(tickers, test_count) ELSE tickers
            /\ file01' = File(tickers')
    /\ pc' = "universe_done"
    /\ UNCHANGED <<listing, test_mode, test_count, file02, file03, file04,
                   normVars, filterVars, collectVars, scoreVars,
                   provider_log, tenkVars>>

NextUniverse == GetTickers \/ CreateDataframe

SpecUniverse == InitUniverse /\ [][NextUniverse]_vars

\* the listing has a table with a recognized symbol column
Recognized(l) ==
    /\ l.kind = "tables"
    /\ Len(l.tables) > 0
    /\ \/ "Symbol" \in DOMAIN l.tables[1]
       \/ "Ticker symbol" \in DOMAIN l.tables[1]

NoDuplicates(s) == \A i, j \in 1..Len(s) : i # j => s[i] # s[j]

\* C14: the universe the Universe Builder writes has no duplicate symbol,
\* whatever the listing, and keeps the listing's order.
C14_UniverseDeduplicated ==
    (pc = "universe_done" /\ file01.exists) =>
        /\ NoDuplicates(file01.rows)
        /\ IsSubsequence(file01.rows, get_sp500_tickers(listing).value)

\* C15: get_sp500_tickers never raises to its caller, and when the listing
\* cannot be fetched or parsed or has no column 'Symbol' or 'Ticker symbol'
\* the list it returns is empty.
C15_NeverRaises ==
    /\ pc # "raised"
    /\ (pc = "universe_create" /\ ~Recognized(listing)) => tickers = <<>>

\* the listing's table has rows and no recognized symbol column, and the
\* call returned the empty list
C15_Witness ==
    /\ pc = "universe_create"
    /\ listing.kind = "tables" /\ Len(listing.tables) = 1
    /\ DOMAIN listing.tables[1] = {"Security"}
    /\ Len(listing.tables[1]["Security"]) > 0
    /\ tickers = <<>>

\* C25: with test_mode set and test_count = K the universe written by
\* create_dataframe_with_tickers is the first K tickers of the listing, in
\* the order of the listing (the whole listing when it has fewer than K);
\* with test_mode not set it is the whole listing.
C25_Truncation ==
    (pc = "universe_done" /\ file01.exists) =>
        LET all == get_sp500_tickers(listing).value
            kept == IF ~test_mode THEN Len(all)
                    ELSE IF test_count < Len(all) THEN test_count ELSE Len(all)
        IN  /\ Len(file01.rows) = kept
            /\ \A i \in 1..kept : file01.rows[i] = all[i]

\* a listing of two different tickers was cut to its first ticker
C25_Witness ==
    /\ pc = "universe_done"
    /\ test_mode /\ test_count = 1
    /\ Len(get_sp500_tickers(listing).value) = 2
    /\ get_sp500_tickers(listing).value[1] # get_sp500_tickers(listing).value[2]
    /\ file01 = File(<<get_sp500_tickers(listing).value[1]>>)


(***************************************************************************)
(* get_all_screening_metrics.  What the market-data provider gives for a   *)
(* ticker is a record:                                                     *)
(*   kind      "raise" when a call of the outer try block raises           *)
(*             (time_delay, yf.Ticker, history, info), else "data"         *)
(*   hist_1y   [n, vol]: the number of rows of the 1-year history and the  *)
(*             annualized deviation std * sqrt(252) of its log returns, a  *)
(*             cell in units of 1 / Unit (the logarithm and the root are   *)
(*             not computed here)                                          *)
(*   hist_30d  [Volume, Close]: two columns of one length, of integers     *)
(*   options   [kind |-> "raise"] when a call of the inner try block       *)
(*             raises, [kind |-> "none"] without expiry, else the calls'   *)
(*             and puts' volume cells of the first expiry and the Volume   *)
(*             column of the 5-day history                                 *)
(*   info      shortRatio and shortPercentOfFloat, each absent, None or a  *)
(*             cell in units of 1 / Unit                                   *)
(* A None among the results becomes NaN when add_all_screening_metrics     *)
(* stores it in its float column, and is NaN here.                         *)
(***************************************************************************)
RECURSIVE SumSeq(_)
SumSeq(s) == IF s = <<>> THEN 0 ELSE s[1] + SumSeq(Tail(s))

\* the integer nearest to num / den (den > 0), a tie going to the even one
RoundHalfEven(num, den) ==
    LET q == num \div den
        r == num % den
    IN  IF 2 * r < den THEN q
        ELSE IF 2 * r > den THEN q + 1
        ELSE IF q % 2 = 0 THEN q ELSE q + 1

\* round(num / den, 2) and round(num / den, 4), in units of 1 / Unit
Round2(num, den) == (Unit \div 100) * RoundHalfEven(100 * num, den)

Round4(num, den) == RoundHalfEven(Unit * num, den)

\* round(c, 2) of a cell; round(nan, 2) is nan
CellRound2(c) == IF IsNaN(c) THEN NaN ELSE Num(Round2(Val(c), Unit))

\* the last k entries of a column
LastRows(col, k) == SubSeq(col, Len(col) - k + 1, Len(col))

\* lines 157-162
hist_vol_1y(h) == IF h.n > 0 /\ h.n > 50 THEN CellRound2(h.vol) ELSE NaN

\* lines 165-173; the mean of the last 20 volumes is sum_20d / 20, so
\* current_volume / avg_volume_20d is 20 * current_volume / sum_20d
volume_metrics(h) ==
    LET n == Len(h.Volume)
    IN  IF n > 0 /\ n >= 20
        THEN LET current_volume == h.Volume[n]
                 sum_20d == SumSeq(LastRows(h.Volume, 20))
             IN  [volume_ratio |->
                      IF sum_20d > 0 THEN Num(Round2(20 * current_volume, sum_20d))
                      ELSE Num(Round2(0, 1)),
                  avg_volume_20d |-> Num(Unit * (sum_20d \div 20))]
        ELSE [volume_ratio |-> NaN, avg_volume_20d |-> NaN]

\* hist_30d['Close'].iloc[-k] if len(hist_30d) >= k else current_price
PriceBack(close, k) ==
    IF Len(close) >= k THEN close[Len(close) - k + 1] ELSE close[Len(close)]

\* round((current_price - price) / price * 100, 2) if price > 0 else 0
PriceChange(current_price, price) ==
    IF price > 0 THEN Num(Round2((current_price - price) * 100, price)) ELSE Num(0)

\* lines 176-188
price_metrics(h) ==
    LET n == Len(h.Close)
    IN  IF n > 0 /\ n >= 21
        THEN LET current_price == h.Close[n]
             IN  [change_1d |-> PriceChange(current_price, PriceBack(h.Close, 2)),
                  change_5d |-> PriceChange(current_price, PriceBack(h.Close, 6)),
                  change_20d |-> PriceChange(current_price, PriceBack(h.Close, 21))]
        ELSE [change_1d |-> NaN, change_5d |-> NaN, change_20d |-> NaN]

\* chain[...]['volume'].fillna(0).sum()
VolumeSum(col) == SumSeq(Tuple([i \in 1..Len(col) |-> Val(fillna(col, 0)[i])]))

\* lines 191-225; hist['Volume'].mean() is sum / len, so
\* total / max(mean, 1) is total * len / max(sum, len)
options_metrics(o) ==
    IF o.kind = "raise" \/ o.kind = "none"
    THEN [options_proxy |-> NaN, put_call_proxy |-> NaN]
    ELSE LET call_volume == VolumeSum(o.calls)
             put_volume == VolumeSum(o.puts)
             total_opt_volume == call_volume + put_volume
             len == IF o.hist_5d = <<>> THEN 1 ELSE Len(o.hist_5d)
             sum == IF o.hist_5d = <<>> THEN 1 ELSE SumSeq(o.hist_5d)
         IN  IF total_opt_volume > 0
             THEN [options_proxy |->
                       Num(Round4(total_opt_volume * len, IF sum > len THEN sum ELSE len)),
                   put_call_proxy |->
                       Num(Round4(put_volume, IF call_volume > 1 THEN call_volume ELSE 1))]
             ELSE [options_proxy |-> Num(Round4(0, 1)), put_call_proxy |-> Num(Round4(1, 1))]

\* an entry of the info dictionary
InfoAbsent == [kind |-> "absent"]

InfoNone == [kind |-> "None"]

InfoValue(c) == [kind |-> "value", v |-> c]

\* a short-interest metric that is missing when the key is absent
ShortMetricMissing(e) ==
    IF e.kind = "absent" THEN NaN ELSE CellRound2(e.v)

\* round(info.get(key, 0), 2); round(None, 2) raises TypeError
ShortMetric(e) ==
    IF e.kind = "absent" THEN Num(Round2(0, 1)) ELSE CellRound2(e.v)

\* the cases that end in the except clause of line 233
CollectRaises(m) ==
    \/ m.kind = "raise"
    \/ m.info.shortRatio.kind = "None"
    \/ m.info.shortPercentOfFloat.kind = "None"

ResultKeys ==
    {"hist_vol_1y", "volume_ratio", "avg_volume_20d", "change_1d", "change_5d",
     "change_20d", "options_proxy", "put_call_proxy", "short_ratio", "short_percent"}

\* lines 234-239
AllMissingResults == [k \in ResultKeys |-> NaN]

\* lines 135-239
get_all_screening_metrics(m) ==
    IF CollectRaises(m)
    THEN AllMissingResults
    ELSE LET v == volume_metrics(m.hist_30d)
             p == price_metrics(m.hist_30d)
             o == options_metrics(m.options)
         IN  [hist_vol_1y |-> hist_vol_1y(m.hist_1y),
              volume_ratio |-> v.volume_ratio,
              avg_volume_20d |-> v.avg_volume_20d,
              change_1d |-> p.change_1d,
              change_5d |-> p.change_5d,
              change_20d |-> p.change_20d,
              options_proxy |-> o.options_proxy,
              put_call_proxy |-> o.put_call_proxy,
              short_ratio |-> ShortMetric(m.info.shortRatio),
              short_percent |-> ShortMetric(m.info.shortPercentOfFloat)]


(***************************************************************************)
(* add_all_screening_metrics.  The provider's answers are varied one field *)
(* at a time around BaseData.                                              *)
(***************************************************************************)
MaxCollect == 2     \* longest ticker list in file 02

\* a 30-day history of n rows: the volume is vback on every day but the
\* last; the close is c[5] on the last day, c[4] one day, c[3] five days and
\* c[2] twenty days before it, and c[1] on every other day
Hist30d(n, vback, vlast, c) ==
    [Volume |-> Tuple([i \in 1..n |-> IF i = n THEN vlast ELSE vback]),
     Close |-> Tuple([i \in 1..n |->
                   IF i = n THEN c[5]
                   ELSE IF i = n - 1 THEN c[4]
                   ELSE IF i = n - 5 THEN c[3]
                   ELSE IF i = n - 20 THEN c[2]
                   ELSE c[1]])]

BaseCloses == <<3, 4, 5, 8, 10>>

BaseHist1y == [n |-> 51, vol |-> Num(2500)]

BaseHist30d == Hist30d(21, 1, 1, BaseCloses)

BaseOptions ==
    [kind |-> "chain", calls |-> <<Num(1), NaN>>, puts |-> <<Num(2)>>, hist_5d |-> <<2, 2>>]

BaseInfo == [shortRatio |-> InfoValue(Num(15000)), shortPercentOfFloat |-> InfoAbsent]

BaseData ==
    [kind |-> "data", hist_1y |-> BaseHist1y, hist_30d |-> BaseHist30d,
     options |-> BaseOptions, info |-> BaseInfo]

Hist1yCases ==
    {[n |-> 0, vol |-> NaN], [n |-> 50, vol |-> Num(2500)],
     [n |-> 51, vol |-> NaN], [n |-> 51, vol |-> Num(1250)]}

Hist30dCases ==
    {Hist30d(n, 1, 1, BaseCloses) : n \in {0, 19, 20, 22}}
    \cup {Hist30d(n, 0, 0, BaseCloses) : n \in {20, 21}}
    \cup {Hist30d(21, v[1], v[2], BaseCloses) : v \in {<<1, 2>>, <<2, 1>>, <<0, 1>>, <<1, 0>>}}
    \cup {Hist30d(21, 1, 1, c) :
            c \in {<<3, 0, 5, 8, 10>>, <<3, 4, 0, 8, 10>>, <<3, 4, 5, 0, 10>>,
                   <<3, 3, 3, 3, 3>>, <<3, 16, 12, 11, 10>>}}

OptionsCases ==
    {[kind |-> "raise"], [kind |-> "none"],
     [kind |-> "chain", calls |-> <<NaN>>, puts |-> <<NaN, Num(0)>>, hist_5d |-> <<2, 2>>],
     [kind |-> "chain", calls |-> <<>>, puts |-> <<Num(3)>>, hist_5d |-> <<>>],
     [kind |-> "chain", calls |-> <<Num(3)>>, puts |-> <<Num(1)>>, hist_5d |-> <<0, 1>>]}

InfoCases ==
    {[shortRatio |-> InfoAbsent, shortPercentOfFloat |-> InfoValue(Num(250))],
     [shortRatio |-> InfoNone, shortPercentOfFloat |-> InfoAbsent],
     [shortRatio |-> InfoValue(NaN), shortPercentOfFloat |-> InfoNone],
     [shortRatio |-> InfoValue(Num(12345)), shortPercentOfFloat |-> InfoValue(Num(50))]}

MarketData ==
    {[kind |-> "raise"], BaseData}
    \cup {[BaseData EXCEPT !.hist_1y = h] : h \in Hist1yCases}
    \cup {[BaseData EXCEPT !.hist_30d = h] : h \in Hist30dCases}
    \cup {[BaseData EXCEPT !.options = o] : o \in OptionsCases}
    \cup {[BaseData EXCEPT !.info = i] : i \in InfoCases}

\* the row of a ticker in the frame: lines 263-264 and 272-281
MetricsRow(ticker, metrics) ==
    [Ticker |-> ticker,
     Historical_Vol |-> metrics.hist_vol_1y,
     Volume_Ratio |-> metrics.volume_ratio,
     Avg_Volume_20d |-> metrics.avg_volume_20d,
     Price_Change_1d |-> metrics.change_1d,
     Price_Change_5d |-> metrics.change_5d,
     Price_Change_20d |-> metrics.change_20d,
     Options_Proxy |-> metrics.options_proxy,
     Put_Call_Proxy |-> metrics.put_call_proxy,
     Short_Ratio |-> metrics.short_ratio,
     Short_Percent |-> metrics.short_percent]

InitCollect ==
    /\ pc = "collect_start"
    /\ file02 \in {Absent} \cup {File(u) : u \in SeqsUpTo(Tickers, MaxCollect)}
    /\ file01 = Absent /\ file03 = Absent /\ file04 = Absent
    /\ data_dir = TRUE
    /\ IdleNorm /\ IdleUniverse /\ IdleFilter /\ IdleCollect /\ IdleScore
    /\ IdleLog /\ IdleTenK

\* lines 249-264: the input file is checked and read, the columns are
\* created with NaN in every row
CollectStart ==
    /\ pc = "collect_start"
    /\ IF ~file02.exists
       THEN /\ pc' = "collect_done"
            /\ UNCHANGED <<metrics_df, collect_idx>>
       ELSE /\ metrics_df' =
                  Tuple([i \in 1..Len(file02.rows) |->
                            MetricsRow(file02.rows[i], AllMissingResults)])
            /\ collect_idx' = 0
            /\ pc' = "collect_loop"
    /\ UNCHANGED <<market, fileVars, normVars, universeVars, filterVars, scoreVars,
                   provider_log, data_dir, tenkVars>>

\* lines 267-269 and 144-151: the loop takes the next ticker and the
\* provider is asked for its data; data is the set of possible answers
CollectFetch(data) ==
    /\ pc = "collect_loop"
    /\ collect_idx < Len(metrics_df)
    /\ \E m \in data : market' = m
    /\ pc' = "collect_assign"
    /\ provider_log' = LogAfter(provider_log, CollectEvents(market'))
    /\ UNCHANGED <<metrics_df, collect_idx, fileVars, normVars, universeVars,
                   filterVars, scoreVars,
                   data_dir, tenkVars>>

\* an iteration that leaves out a ticker whose collection raised
CollectAssignDrops ==
    /\ pc = "collect_assign"
    /\ IF CollectRaises(market)
       THEN /\ metrics_df' = SubSeq(metrics_df, 1, collect_idx)
                                 \o SubSeq(metrics_df, collect_idx + 2, Len(metrics_df))
            /\ UNCHANGED collect_idx
       ELSE /\ metrics_df' =
                  [metrics_df EXCEPT ![collect_idx + 1] =
                      MetricsRow(@.Ticker, get_all_screening_metrics(market))]
            /\ collect_idx' = collect_idx + 1
    /\ market' = NoFrame
    /\ pc' = "collect_loop"
    /\ UNCHANGED <<fileVars, normVars, universeVars, filterVars, scoreVars,
                   provider_log, data_dir, tenkVars>>

\* lines 269-281: the metrics are computed and stored in the ticker's row.
\* market is not read again before the next iteration assigns it, and is
\* cleared here.
CollectAssign ==
    /\ pc = "collect_assign"
    /\ metrics_df' =
          [metrics_df EXCEPT ![collect_idx + 1] =
              MetricsRow(@.Ticker, get_all_screening_metrics(market))]
    /\ collect_idx' = collect_idx + 1
    /\ market' = NoFrame
    /\ pc' = "collect_loop"
    /\ UNCHANGED <<fileVars, normVars, universeVars, filterVars, scoreVars,
                   provider_log, data_dir, tenkVars>>

\* a collector that empties its input file when it writes its output
CollectWriteInPlace ==
    /\ pc = "collect_loop"
    /\ collect_idx = Len(metrics_df)
    /\ file03' = File(metrics_df)
    /\ file02' = File(<<>>)
    /\ pc' = "collect_done"
    /\ UNCHANGED <<file01, file04, collectVars, normVars, universeVars,
                   filterVars, scoreVars,
                   provider_log, data_dir, tenkVars>>

\* lines 283-284
CollectWrite ==
    /\ pc = "collect_loop"
    /\ collect_idx = Len(metrics_df)
    /\ file03' = File(metrics_df)
    /\ pc' = "collect_done"
    /\ UNCHANGED <<file01, file02, file04, collectVars, normVars, universeVars,
                   filterVars, scoreVars,
                   provider_log, data_dir, tenkVars>>

NextCollect == CollectStart \/ CollectFetch(MarketData) \/ CollectAssign \/ CollectWrite

SpecCollect == InitCollect /\ [][NextCollect]_vars


(***************************************************************************)
(* Claims about the Metrics Collector.                                     *)
(***************************************************************************)
\* every metric of the row is missing
RowAllMissing(row) == \A f \in MetricColumns : IsNaN(row[f])

\* C12: the Metrics Collector writes exactly one row for every ticker of
\* file 02, in the order of file 02; an iteration in which collecting the
\* ticker raised leaves every metric of that ticker's row missing, keeps
\* the row and all other rows, and the loop goes on with the next ticker.
C12_OneRowPerTicker ==
    /\ []((pc = "collect_done" /\ file02.exists) =>
            /\ file03.exists
            /\ Len(file03.rows) = Len(file02.rows)
            /\ \A i \in 1..Len(file02.rows) : file03.rows[i].Ticker = file02.rows[i])
    /\ [][(pc = "collect_assign" /\ market.kind = "raise") =>
            /\ Len(metrics_df') = Len(metrics_df)
            /\ \A i \in 1..Len(metrics_df) :
                  /\ metrics_df'[i].Ticker = metrics_df[i].Ticker
                  /\ i # collect_idx + 1 => metrics_df'[i] = metrics_df[i]
            /\ RowAllMissing(metrics_df'[collect_idx + 1])
            /\ collect_idx' = collect_idx + 1
            /\ pc' = "collect_loop"]_vars

\* two tickers were collected: every metric of the first is missing, the
\* second has a volume ratio, and file 03 holds both rows
C12_Witness ==
    /\ pc = "collect_done"
    /\ file02.exists /\ Len(file02.rows) = 2
    /\ Len(file03.rows) = 2
    /\ RowAllMissing(file03.rows[1])
    /\ ~IsNaN(file03.rows[2].Volume_Ratio)

\* C20: volume_ratio is the last day's volume divided by the mean volume
\* of the last 20 days (kept to two decimal places), and it is missing, not
\* a number, whenever that mean is not positive or the history has fewer
\* than 20 days.
C20_VolumeRatio ==
    [][(pc = "collect_assign" /\ market.kind = "data" /\ ~CollectRaises(market)) =>
          LET volume == market.hist_30d.Volume
              n == Len(volume)
              sum_20d == SumSeq(LastRows(volume, 20))
              cell == metrics_df'[collect_idx + 1].Volume_Ratio
          IN  IF n < 20 THEN IsNaN(cell)
              ELSE IF sum_20d <= 0 THEN IsNaN(cell)
              ELSE cell = Num(Round2(20 * volume[n], sum_20d))]_vars


\* the change cell the claim C21 gives for a look-back of k days
ChangeExpected(close, k, cell) ==
    LET n == Len(close)
    IN  IF n >= k + 1
        THEN close[n - k] > 0 =>
                 cell = Num(Round2((close[n] - close[n - k]) * 100, close[n - k]))
        ELSE cell = Num(0)

\* C21: for N in 1, 5, 20, change_Nd is the percentage change of the latest
\* close against the close N days earlier (kept to two decimal places);
\* when the 30-day history has no close N days back, change_Nd is 0, and
\* the other metrics of the ticker are computed all the same.
C21_PriceChangeFallback ==
    [][(pc = "collect_assign" /\ ~CollectRaises(market)) =>
          LET close == market.hist_30d.Close
              row == metrics_df'[collect_idx + 1]
          IN  /\ ChangeExpected(close, 1, row.Price_Change_1d)
              /\ ChangeExpected(close, 5, row.Price_Change_5d)
              /\ ChangeExpected(close, 20, row.Price_Change_20d)
              /\ row.Historical_Vol = hist_vol_1y(market.hist_1y)
              /\ row.Volume_Ratio = volume_metrics(market.hist_30d).volume_ratio
              /\ row.Short_Ratio = ShortMetric(market.info.shortRatio)]_vars


\* the larger of two integers
Max(a, b) == IF a > b THEN a ELSE b

\* C22: for a ticker with an option expiry, options_proxy is the call plus
\* put volume of the nearest-expiry chain (a missing contract volume counts
\* as 0) divided by max(mean share volume of the last 5 days, 1), and
\* put_call_proxy is the put volume divided by max(call volume, 1), both
\* kept to four decimal places, also for a chain whose total volume is 0;
\* for a ticker without an expiry both are missing.
C22_OptionsProxies ==
    [][(pc = "collect_assign" /\ ~CollectRaises(market)) =>
          LET o == market.options
              row == metrics_df'[collect_idx + 1]
          IN  /\ o.kind = "none" =>
                    IsNaN(row.Options_Proxy) /\ IsNaN(row.Put_Call_Proxy)
              /\ o.kind = "chain" =>
                    LET call_volume == VolumeSum(o.calls)
                        put_volume == VolumeSum(o.puts)
                        days == Len(o.hist_5d)
                    IN  /\ days > 0 =>
                              row.Options_Proxy =
                                  Num(Round4((call_volume + put_volume) * days,
                                             Max(SumSeq(o.hist_5d), days)))
                        /\ row.Put_Call_Proxy =
                              Num(Round4(put_volume, Max(call_volume, 1)))]_vars


MaxMain == 3        \* most rows of the listing's table in a run of main

MainTickers == {"A", "B", "C"}

StaleRows03 == <<MetricsRow("Z", get_all_screening_metrics(BaseData))>>

StaleRows04 ==
    WithoutIndex(ScoredRows(StaleRows03, [num |-> DefaultBenchmark, den |-> 1],
                            SCREENING_WEIGHTS))

EarlierRuns ==
    {<<Absent, Absent, Absent, Absent>>,
     <<File(<<"Z">>), Absent, Absent, Absent>>,
     <<File(<<"Z">>), File(<<"Z">>), Absent, Absent>>,
     <<File(<<"Z">>), File(<<"Z">>), File(StaleRows03), Absent>>,
     <<File(<<"Z">>), File(<<"Z">>), File(StaleRows03), File(StaleRows04)>>}

\* the listings of a run of main: the fetch fails, the table has no symbol
\* column, or it has the column Symbol
MainListings ==
    {[kind |-> "raise"]}
    \cup {[kind |-> "tables", tables |-> <<[c \in {"Security"} |-> s]>>] :
            s \in SeqsOfLen(MainTickers, 1)}
    \cup {[kind |-> "tables", tables |-> <<[c \in {"Symbol"} |-> s]>>] :
            s \in SeqsUpTo(MainTickers, MaxMain)}

\* the answers of the fundamentals provider in a run of main: a failure, no
\* Net Income line, three rising periods, a decrease, two periods only
MainFinancials ==
    {[kind |-> "raise"],
     [kind |-> "frame", has_net_income |-> FALSE, ncols |-> 3, net_income |-> <<>>],
     [kind |-> "frame", has_net_income |-> TRUE, ncols |-> 3,
      net_income |-> <<Num(2), Num(1), Num(1)>>],
     [kind |-> "frame", has_net_income |-> TRUE, ncols |-> 3,
      net_income |-> <<Num(2), Num(1), Num(2)>>],
     [kind |-> "frame", has_net_income |-> TRUE, ncols |-> 2,
      net_income |-> <<Num(2), Num(1)>>]}

\* the answers of the market-data provider in a run of main
MainMarket ==
    {[kind |-> "raise"], BaseData,
     [BaseData EXCEPT !.hist_30d = Hist30d(21, 1, 2, <<3, 16, 12, 11, 10>>)]}

InitMain ==
    /\ pc = "universe_start"
    /\ listing \in MainListings
    /\ test_mode \in BOOLEAN
    /\ test_count = IF test_mode THEN 1 ELSE 10
    /\ tickers = <<>>
    /\ \E e \in EarlierRuns :
          file01 = e[1] /\ file02 = e[2] /\ file03 = e[3] /\ file04 = e[4]
    /\ data_dir \in (IF file01.exists THEN {TRUE} ELSE BOOLEAN)
    /\ IdleNorm /\ IdleFilter /\ IdleCollect /\ IdleScore
    /\ IdleLog /\ IdleTenK

\* line 363
CallFilter ==
    /\ pc = "universe_done"
    /\ pc' = "filter_start"
    /\ UNCHANGED <<fileVars, normVars, universeVars, filterVars, collectVars, scoreVars,
                   provider_log, data_dir, tenkVars>>

\* line 366
CallCollect ==
    /\ pc = "filter_done"
    /\ pc' = "collect_start"
    /\ UNCHANGED <<fileVars, normVars, universeVars, filterVars, collectVars, scoreVars,
                   provider_log, data_dir, tenkVars>>

\* line 369
CallScore ==
    /\ pc = "collect_done"
    /\ pc' = "score_start"
    /\ UNCHANGED <<fileVars, normVars, universeVars, filterVars, collectVars, scoreVars,
                   provider_log, data_dir, tenkVars>>

\* lines 371-373
MainReturn ==
    /\ pc = "score_done"
    /\ pc' = "main_done"
    /\ UNCHANGED <<fileVars, normVars, universeVars, filterVars, collectVars, scoreVars,
                   provider_log, data_dir, tenkVars>>

NextMain ==
    \/ GetTickers \/ CreateDataframe
    \/ CallFilter
    \/ FilterStart \/ FilterFetch(MainFinancials) \/ FilterCheck \/ FilterWrite
    \/ CallCollect
    \/ CollectStart \/ CollectFetch(MainMarket) \/ CollectAssign \/ CollectWrite
    \/ CallScore
    \/ ScoreBenchmark \/ ScoreCompute
    \/ MainReturn

SpecMain == InitMain /\ [][NextMain]_vars

\* the interpreter runs the script on: a step that can be taken is taken
SpecMainFair == SpecMain /\ WF_vars(NextMain)


(***************************************************************************)
(* Claims about a run of main.                                             *)
(***************************************************************************)
UniverseLabels == {"universe_start", "universe_create"}

FilterLabels == {"filter_start", "filter_loop", "filter_check"}

CollectLabels == {"collect_start", "collect_loop", "collect_assign"}

ScoreLabels == {"score_start", "score_compute"}

\* the stage a position belongs to; a stage's _done position is the return
\* to main
StageOf(p) ==
    IF p \in UniverseLabels \cup {"universe_done"} THEN 1
    ELSE IF p \in FilterLabels \cup {"filter_done"} THEN 2
    ELSE IF p \in CollectLabels \cup {"collect_done"} THEN 3
    ELSE IF p \in ScoreLabels \cup {"score_done"} THEN 4
    ELSE 5

\* the Ticker column of a snapshot
TickersOf(rows) == Tuple([i \in 1..Len(rows) |-> rows[i].Ticker])

\* the entries of a sequence
Range(s) == {s[i] : i \in 1..Len(s)}

\* get_sp500_tickers gave the Universe Builder the empty list
EmptyListing == get_sp500_tickers(listing).value = <<>>

\* C16: when the Universe Builder obtains an empty ticker list, the
\* pipeline stops for that run: no later step fetches provider data and no
\* snapshot file is written, whatever files an earlier run left.
C16_EmptyUniverseStops ==
    [][EmptyListing =>
          /\ UNCHANGED <<file01, file02, file03, file04>>
          /\ financials_df' = NoFrame
          /\ market' = NoFrame
          /\ spy_hist' = NoFrame]_vars

\* C17: a stage that finds the snapshot of the stage before it absent
\* writes no output, and no stage after it writes output in that run.  No
\* step after the Universe Builder writes file 01, no step after the filter
\* writes file 02 and no step after the collector writes file 03, so a file
\* that is absent after its stage was absent when the next stage looked.
C17_AbsentInputHalts ==
    [][/\ (StageOf(pc) >= 2 /\ ~file01.exists) => UNCHANGED <<file02, file03, file04>>
       /\ (StageOf(pc) >= 3 /\ ~file02.exists) => UNCHANGED <<file03, file04>>
       /\ (StageOf(pc) >= 4 /\ ~file03.exists) => UNCHANGED file04]_vars

\* s and t hold the same entries the same number of times
IsPermutation(s, t) ==
    /\ Len(s) = Len(t)
    /\ \A x \in Range(s) \cup Range(t) :
          Cardinality({i \in 1..Len(s) : s[i] = x})
              = Cardinality({i \in 1..Len(t) : t[i] = x})

\* C18: control flows forward through the four stages, each stage writes
\* only its own snapshot and leaves the three others unchanged, and what a
\* stage writes is built from the snapshot of the stage before it: file 02
\* is a subsequence of file 01, file 03 has the tickers of file 02, and
\* file 04 has the rows of file 03 (in some order) with their metrics.
C18_ForwardOnly ==
    [][/\ StageOf(pc') >= StageOf(pc)
       /\ StageOf(pc) = 1 => UNCHANGED <<file02, file03, file04>>
       /\ StageOf(pc) = 2 =>
            /\ UNCHANGED <<file01, file03, file04>>
            /\ file02' # file02 => IsSubsequence(file02'.rows, file01.rows)
       /\ StageOf(pc) = 3 =>
            /\ UNCHANGED <<file01, file02, file04>>
            /\ file03' # file03 => TickersOf(file03'.rows) = file02.rows
       /\ StageOf(pc) = 4 =>
            /\ UNCHANGED <<file01, file02, file03>>
            /\ file04' # file04 =>
                  /\ IsPermutation(TickersOf(file04'.rows), TickersOf(file03.rows))
                  /\ \A k \in 1..Len(file04'.rows) :
                        \E i \in 1..Len(file03.rows) :
                            \A f \in MetricColumns \cup {"Ticker"} :
                                file04'.rows[k][f] = file03.rows[i][f]
       /\ StageOf(pc) = 5 => UNCHANGED <<file01, file02, file03, file04>>]_vars

\* a run ended in which every stage wrote its snapshot over that of an
\* earlier run: the listing A, B, the survivor B, its metrics, its score
C18_Witness ==
    /\ pc = "main_done"
    /\ file01 = File(<<"A", "B">>)
    /\ file02 = File(<<"B">>)
    /\ TickersOf(file03.rows) = <<"B">>
    /\ TickersOf(file04.rows) = <<"B">>
    /\ ~IsNaN(file03.rows[1].Volume_Ratio)

C24_DelayBetweenCalls ==
    \A k \in 1..(Len(provider_log) - 1) :
        ~(provider_log[k] # Delay /\ provider_log[k + 1] # Delay)

\* C26: whatever the providers answer, a run of main goes through the four
\* stages in the order Universe Builder, Fundamental Filter, Metrics
\* Collector, Composite Scorer, raises nothing and comes to its end.
C26_RunTerminates ==
    /\ [](pc # "raised")
    /\ [][StageOf(pc') \in {StageOf(pc), StageOf(pc) + 1}]_vars
    /\ <>(pc = "main_done")

\* numeric benchmark returns: the ones the SPY fetch can give here, the
\* fallback among them, and 0, -5/3 and 7/2
BenchmarkReturns ==
    {SpyReturn(h) : h \in SpyOutcomes}
    \cup {[num |-> 0, den |-> 1], [num |-> 0 - 5, den |-> 3], [num |-> 7, den |-> 2]}

\* C27: the scores do not depend on the benchmark return: for the snapshot
\* in file 03, the Relative_Strength_Score, Composite_Score and Rank the
\* run gave every ticker are the ones any other numeric benchmark return
\* gives it.
C27_BenchmarkIndependent ==
    (pc = "score_done" /\ file03.exists) =>
        \A b \in BenchmarkReturns :
            LET other == ScoredRows(file03.rows, b, weights)
            IN  \A k \in 1..Len(df) :
                    /\ df[k].Relative_Strength_Score
                          = other[df[k].index].Relative_Strength_Score
                    /\ df[k].Composite_Score = other[df[k].index].Composite_Score
                    /\ df[k].Rank = other[df[k].index].Rank

\* a snapshot of two tickers with different relative strength was scored
\* with a fetched benchmark return
C27_Witness ==
    /\ pc = "score_done"
    /\ Len(df) = 2
    /\ spy_hist.kind = "frame" /\ spy_return_20d # [num |-> DefaultBenchmark, den |-> 1]
    /\ df[1].Relative_Strength_Score # df[2].Relative_Strength_Score
    /\ \E k \in 1..2 : IsNaN(df[k].Price_Change_20d)


(***************************************************************************)
(* The 10-K downloader, src/code/phase_02_get_10K_forms.py.  The script    *)
(* reads the tickers of file 02, asks SEC EDGAR for the 10-K filings of    *)
(* each ticker and saves the text of every filing it could download.       *)
(*   answer of the search   [cik, submissions, browse]: whether            *)
(*       get_cik_from_ticker found a CIK, the number of 10-K entries of    *)
(*       the submissions API (0 also when the request fails), and the      *)
(*       10-K rows of the browse-edgar table, each TRUE when the row's     *)
(*       link holds a CIK                                                  *)
(*   filing                 [cik]: whether the filing record has a CIK     *)
(*   answer to a download   one outcome for each URL tried: "failed" (no   *)
(*       200 response, or an exception), "short" (at most 10000            *)
(*       characters) or a document with the words its text starts with     *)
(*   text                   [starts, downloaded]: how the returned string  *)
(*       starts, and whether it is the text of a downloaded document       *)
(***************************************************************************)
MaxTenK == 2        \* longest ticker list in file 02 read by the downloader
MaxFilings == 2     \* most 10-K entries in an answer of the SEC

\* line 30
MAX_FILINGS_PER_TICKER == 3

\* lines 276-284: the URLs tried for a filing
NUrls == 3

\* df["Ticker"].dropna().unique(): the first occurrence of every ticker
Unique(s) ==
    LET first == {i \in 1..Len(s) : \A j \in 1..(i - 1) : s[j] # s[i]}
        Pos(k) == CHOOSE i \in first : Cardinality({j \in first : j < i}) = k - 1
    IN  Tuple([k \in 1..Cardinality(first) |-> Pos(k)])

SearchAnswers ==
    {[cik |-> c, submissions |-> n, browse |-> b] :
        c \in BOOLEAN, n \in 0..MaxFilings, b \in SeqsUpTo(BOOLEAN, MaxFilings)}

\* lines 154-259: Method 1 returns the 10-K entries of the submissions API,
\* all with the CIK; Method 2 returns the rows of the table, with the CIK
\* known so far (line 233 takes it from a row's link when none is known)
search_10k_filings(a) ==
    IF a.cik /\ a.submissions > 0
    THEN Tuple([k \in 1..(IF a.submissions < MAX_FILINGS_PER_TICKER THEN a.submissions
                          ELSE MAX_FILINGS_PER_TICKER) |-> [cik |-> TRUE]])
    ELSE Tuple([k \in 1..(IF Len(a.browse) < MAX_FILINGS_PER_TICKER THEN Len(a.browse)
                          ELSE MAX_FILINGS_PER_TICKER) |->
                   [cik |-> a.cik \/ \E m \in 1..k : a.browse[m]]])

UrlOutcomes ==
    {[kind |-> "failed"], [kind |-> "short"]}
    \cup {[kind |-> "document", starts |-> p] : p \in {"", "Error", "Could not"}}

DownloadAnswers == [1..NUrls -> UrlOutcomes]

\* lines 261-322: without a CIK the message "No CIK available for ..." is
\* returned (line 270); else the text of the first URL that gives a
\* document of more than 10000 characters; else the message "Could not
\* download ..." (line 319).  filing_info always has 'accession_number', so
\* the except clause of line 321 is not entered.
download_10k_document(filing_info, r) ==
    IF ~filing_info.cik
    THEN [starts |-> "No CIK", downloaded |-> FALSE]
    ELSE LET good == {k \in 1..NUrls : r[k].kind = "document"}
         IN  IF good = {}
             THEN [starts |-> "Could not", downloaded |-> FALSE]
             ELSE LET k == CHOOSE k \in good : \A m \in good : k <= m
                  IN  [starts |-> r[k].starts, downloaded |-> TRUE]

\* line 386
IsSuccess(document_text) ==
    ~(document_text.starts = "Error") /\ ~(document_text.starts = "Could not")

\* a file under data/10k_filings/<ticker>
SavedFile(ticker, j, document_text) ==
    [ticker |-> ticker, filing |-> j, downloaded |-> document_text.downloaded]

InitTenK ==
    /\ pc = "tenk_start"
    /\ file02 \in {Absent} \cup {File(u) : u \in SeqsUpTo(Tickers, MaxTenK)}
    /\ file01 = Absent /\ file03 = Absent /\ file04 = Absent
    /\ data_dir \in (IF file02.exists THEN {TRUE} ELSE BOOLEAN)
    /\ tenk_tickers = <<>> /\ tenk_i = 0 /\ filings = <<>> /\ tenk_j = 0
    /\ success_count = 0 /\ successful_tickers = 0
    /\ saved \in {{}, {[ticker |-> "Z", filing |-> 1, downloaded |-> TRUE]}}
    /\ sec_last = "none"
    /\ IdleNorm /\ IdleUniverse /\ IdleFilter /\ IdleCollect /\ IdleScore
    /\ IdleLog

\* lines 43-46 and 346-359: the output directory is emptied, the CSV file
\* is read; exit(1) when it cannot be read
TenKLoad ==
    /\ pc = "tenk_start"
    /\ saved' = {}
    /\ data_dir' = TRUE
    /\ IF ~file02.exists
       THEN /\ pc' = "tenk_exit"
            /\ UNCHANGED tenk_tickers
       ELSE /\ tenk_tickers' = Tuple([k \in 1..Len(Unique(file02.rows)) |->
                                          file02.rows[Unique(file02.rows)[k]]])
            /\ pc' = "tenk_loop"
    /\ UNCHANGED <<tenk_i, filings, tenk_j, success_count, successful_tickers,
                   sec_last, fileVars, normVars, universeVars, filterVars,
                   collectVars, scoreVars, provider_log>>

\* lines 361-372: the next ticker's filings are searched; without filings
\* the loop continues with the next ticker
TenKSearch ==
    /\ pc = "tenk_loop"
    /\ tenk_i < Len(tenk_tickers)
    /\ \E a \in SearchAnswers : filings' = search_10k_filings(a)
    /\ sec_last' = "request"
    /\ IF filings' = <<>>
       THEN /\ tenk_i' = tenk_i + 1
            /\ pc' = "tenk_loop"
            /\ UNCHANGED <<success_count, tenk_j>>
       ELSE /\ success_count' = 0
            /\ tenk_j' = 0
            /\ pc' = "tenk_filing"
            /\ UNCHANGED tenk_i
    /\ UNCHANGED <<tenk_tickers, successful_tickers, saved, data_dir, fileVars,
                   normVars, universeVars, filterVars, collectVars, scoreVars,
                   provider_log>>

\* lines 376-411: a filing is downloaded and, when the returned string does
\* not start with "Error" or "Could not", saved; then the delay between
\* filings (line 411)
TenKFiling ==
    /\ pc = "tenk_filing"
    /\ tenk_j < Len(filings)
    /\ \E r \in DownloadAnswers :
          LET document_text == download_10k_document(filings[tenk_j + 1], r)
          IN  IF IsSuccess(document_text)
              THEN /\ success_count' = success_count + 1
                   /\ saved' = saved \cup
                         {SavedFile(tenk_tickers[tenk_i + 1], tenk_j + 1, document_text)}
              ELSE UNCHANGED <<success_count, saved>>
    /\ sec_last' = "filing_delay"
    /\ tenk_j' = tenk_j + 1
    /\ UNCHANGED <<pc, tenk_tickers, tenk_i, filings, successful_tickers, data_dir,
                   fileVars, normVars, universeVars, filterVars, collectVars,
                   scoreVars, provider_log>>

\* lines 417-424: the ticker is counted when a filing was saved, and the
\* delay between tickers follows unless this was the last ticker
TenKTickerEnd ==
    /\ pc = "tenk_filing"
    /\ tenk_j = Len(filings)
    /\ successful_tickers' =
          IF success_count > 0 THEN successful_tickers + 1 ELSE successful_tickers
    /\ sec_last' = IF tenk_i < Len(tenk_tickers) - 1 THEN "ticker_delay" ELSE sec_last
    /\ tenk_i' = tenk_i + 1
    /\ pc' = "tenk_loop"
    /\ UNCHANGED <<tenk_tickers, filings, tenk_j, success_count, saved, data_dir,
                   fileVars, normVars, universeVars, filterVars, collectVars,
                   scoreVars, provider_log>>

\* lines 426-430
TenKFinish ==
    /\ pc = "tenk_loop"
    /\ tenk_i = Len(tenk_tickers)
    /\ pc' = "tenk_done"
    /\ UNCHANGED <<tenkVars, data_dir, fileVars, normVars, universeVars,
                   filterVars, collectVars, scoreVars, provider_log>>

NextTenK == TenKLoad \/ TenKSearch \/ TenKFiling \/ TenKTickerEnd \/ TenKFinish

SpecTenK == InitTenK /\ [][NextTenK]_vars


(***************************************************************************)
(* Claims about the 10-K downloader.                                       *)
(***************************************************************************)
\* C28: a filing file is written, and success_count incremented, only when
\* download_10k_document returned the text of a document it downloaded:
\* every file under the output directory holds a downloaded document, and
\* success_count is the number of files saved for the current ticker.
C28_SavedOnlyDownloaded ==
    /\ \A f \in saved : f.downloaded
    /\ pc = "tenk_filing" =>
          success_count =
              Cardinality({f \in saved : f.ticker = tenk_tickers[tenk_i + 1]})

\* C29: when the main loop turns to a ticker that is not the first one, the
\* delay between tickers was the last thing executed, whatever happened
\* with the ticker before it.
C29_DelayBeforeNextTicker ==
    (pc = "tenk_loop" /\ tenk_i > 0 /\ tenk_i < Len(tenk_tickers)) =>
        sec_last = "ticker_delay"

====
